---- MODULE Spec2Model ----
(***************************************************************************)
(* HARA tool: the matching-and-determination pipeline of                   *)
(* src/hara_tool/processor.py (ExcelProcessor) with the text normalizer    *)
(* and similarity scorer of src/hara_tool/matcher.py (FuzzyMatcher) and    *)
(* the determination table of src/hara_tool/constants.py.                  *)
(*                                                                         *)
(* Text is a sequence of one-character strings.  A spreadsheet cell is a   *)
(* record [k, n, t]: k = "nan" (missing), "int" (n is the integer),        *)
(* "float" (n is the value in tenths, 35 is 3.5) or "text" (t is the       *)
(* text; the empty text is the empty marker '').                           *)
(***************************************************************************)
EXTENDS Integers, Sequences, FiniteSets, TLC

VARIABLES
    arg_e, arg_s, arg_c,   \* arguments of one get_asil_value call
    asil_out,              \* what the call returned
    asil_pc,               \* "idle", "call" (arguments bound), "done"
    fuzzy_settings,        \* the settings ExcelProcessor was constructed with
    ra_df,                 \* Risk Assessment sheet: [columns, rows]
    ra_cols,               \* the columns match_risk_assessment resolved in ra_df
    processed_df,          \* scenario records returned by process_operating_scenarios
    matched_results,       \* result rows appended so far by match_risk_assessment
    locals,                \* per scenario: best_match, best_score, match_type at loop end
    exact_matches, fuzzy_matches, no_matches,
    final_df,              \* rows returned by determine_asil
    os_df,                 \* Operating Scenario sheet: [columns, rows]
    readable,              \* the sheets pd.read_excel finds in the workbook, of "os", "ra"
    events,                \* the signals emitted so far by run(), in order
    pc,                    \* "idle", "start", "load_ra", "process", "resolve", "match",
                           \* "asil", "finished", "failed"
    fm_args,               \* arguments of one FuzzyMatcher call
    fm_out,                \* what the FuzzyMatcher calls returned, in order
    fm_pc,                 \* "idle", "prepare", "score", "best", "done"
    user_file,             \* HARAMainWindow.user_file: None or the path chosen
    result_df,             \* HARAMainWindow.result_df: None or the table last received
    process_btn, save_btn, export_btn,   \* isEnabled() of the three buttons
    processors,            \* the ExcelProcessor threads started, the last is self.processor
    written,               \* the workbooks written so far by save and export
    app                    \* "running", or "aborted" once Qt has ended the process

asil_vars == <<arg_e, arg_s, arg_c, asil_out, asil_pc>>

pipe_vars ==
    <<fuzzy_settings, ra_df, ra_cols, processed_df, matched_results, locals,
      exact_matches, fuzzy_matches, no_matches, final_df, os_df, readable, events, pc>>

fm_vars == <<fm_args, fm_out, fm_pc>>

gui_vars ==
    <<user_file, result_df, process_btn, save_btn, export_btn, processors, written, app>>

vars == <<asil_vars, pipe_vars, fm_vars, gui_vars>>

(***************************************************************************)
(* Cells and Python conversions                                            *)
(***************************************************************************)
NaN == [k |-> "nan", n |-> 0, t |-> <<>>]
\* Python None (a scenario without hazard)
None == [k |-> "none", n |-> 0, t |-> <<>>]
IntCell(i) == [k |-> "int", n |-> i, t |-> <<>>]
FloatCell(tenths) == [k |-> "float", n |-> tenths, t |-> <<>>]
TextCell(txt) == [k |-> "text", n |-> 0, t |-> txt]
\* the empty marker '' of the result rows
EmptyMarker == TextCell(<<>>)

\* pd.isna(x): a missing cell (NaN or None)
isna(x) == x.k \in {"nan", "none"}

notna(x) == ~isna(x)

\* truth value of a Python object in `if x`
Truthy(x) ==
    CASE x.k = "none" -> FALSE
      [] x.k = "text" -> x.t # <<>>
      [] x.k = "int" -> x.n # 0
      [] x.k = "float" -> x.n # 0
      [] OTHER -> TRUE

\* x == '' in Python: only the empty string equals ''
IsEmptyStr(x) == x.k = "text" /\ x.t = <<>>

IsSpace(ch) == ch \in {" ", "\t"}

Digits == <<"0", "1", "2", "3", "4", "5", "6", "7", "8", "9">>

DigitSet == {Digits[d] : d \in 1..10}

IsDigit(ch) == ch \in DigitSet

DigitVal(ch) == (CHOOSE d \in 1..10 : Digits[d] = ch) - 1

\* Values are bound by set comprehensions, {e(v) : v \in {x}}, where an operand is
\* used more than once: the operand is then evaluated once.
TheOnly(S) == CHOOSE r \in S : TRUE

\* the positions of the characters of t that are not whitespace
NonSpace(t) == {i \in 1..Len(t) : ~IsSpace(t[i])}

Least(S) == CHOOSE i \in S : \A k \in S : i <= k

Greatest(S) == CHOOSE i \in S : \A k \in S : k <= i

\* str.lstrip()
lstrip(t) ==
    TheOnly({IF ns = {} THEN <<>> ELSE SubSeq(t, Least(ns), Len(t)) : ns \in {NonSpace(t)}})

\* str.strip()
strip(t) ==
    TheOnly({IF ns = {} THEN <<>> ELSE SubSeq(t, Least(ns), Greatest(ns)) :
                 ns \in {NonSpace(t)}})

RECURSIVE DigitsValue(_, _)
DigitsValue(t, acc) ==
    IF t = <<>> THEN acc ELSE DigitsValue(Tail(t), 10 * acc + DigitVal(Head(t)))

AllDigits(t) == t # <<>> /\ \A i \in 1..Len(t) : IsDigit(t[i])

Raised == [ok |-> FALSE, v |-> 0]
Returned(i) == [ok |-> TRUE, v |-> i]

\* int(text): surrounding whitespace is ignored, one optional sign, then digits only;
\* anything else raises ValueError
IntOfText(t) ==
    TheOnly({
        LET signed == s # <<>> /\ Head(s) \in {"+", "-"}
            body == IF signed THEN Tail(s) ELSE s
        IN  IF ~AllDigits(body) THEN Raised
            ELSE IF signed /\ Head(s) = "-" THEN Returned(0 - DigitsValue(body, 0))
            ELSE Returned(DigitsValue(body, 0)) :
        s \in {strip(t)}})

\* int(float): truncation toward zero
TruncTenths(n) == IF n >= 0 THEN n \div 10 ELSE 0 - ((0 - n) \div 10)

\* Python int(x) on a cell value: [ok, v]; ok = FALSE when it raises
PyInt(x) ==
    CASE x.k = "int" -> Returned(x.n)
      [] x.k = "float" -> Returned(TruncTenths(x.n))
      [] x.k = "text" -> IntOfText(x.t)
      [] OTHER -> Raised

UpperLetters ==
    <<"A", "B", "C", "D", "E", "F", "G", "H", "I", "J", "K", "L", "M",
      "N", "O", "P", "Q", "R", "S", "T", "U", "V", "W", "X", "Y", "Z", "DELTA">>

\* "DELTA" and "delta" stand for the one-character strings of the Greek capital and
\* small letter delta
LowerLetters ==
    <<"a", "b", "c", "d", "e", "f", "g", "h", "i", "j", "k", "l", "m",
      "n", "o", "p", "q", "r", "s", "t", "u", "v", "w", "x", "y", "z", "delta">>

UpperSet == {UpperLetters[i] : i \in 1..Len(UpperLetters)}

LowerSet == {LowerLetters[i] : i \in 1..Len(LowerLetters)}

LowerOf ==
    [ch \in UpperSet |-> LowerLetters[CHOOSE i \in 1..Len(UpperLetters) : UpperLetters[i] = ch]]

LowerChar(ch) == IF ch \in UpperSet THEN LowerOf[ch] ELSE ch

\* str.lower()
lower(t) == [i \in 1..Len(t) |-> LowerChar(t[i])]

\* ' '.join(words) on trimmed text: the characters of the words, and one space for
\* each whitespace run between two words
JoinWords(t) ==
    TheOnly({[n \in 1..Cardinality(keep) |->
                 TheOnly({IF IsSpace(t[i]) THEN " " ELSE t[i] :
                     i \in {k \in keep : Cardinality({m \in keep : m <= k}) = n}})] :
             keep \in {{i \in 1..Len(t) : ~IsSpace(t[i]) \/ (i > 1 /\ ~IsSpace(t[i - 1]))}}})

\* ' '.join(text.split()): whitespace runs become one space, the ends are trimmed
split_join(t) == TheOnly({JoinWords(s) : s \in {strip(t)}})

RECURSIVE NatDigits(_)
NatDigits(i) ==
    IF i < 10 THEN <<Digits[i + 1]>> ELSE NatDigits(i \div 10) \o <<Digits[(i % 10) + 1]>>

IntDigits(i) == IF i < 0 THEN <<"-">> \o NatDigits(0 - i) ELSE NatDigits(i)

\* str(x) of a cell value
PyStr(x) ==
    CASE x.k = "text" -> x.t
      [] x.k = "int" -> IntDigits(x.n)
      [] x.k = "float" ->
            (IF x.n < 0 THEN <<"-">> ELSE <<>>)
                \o NatDigits((IF x.n < 0 THEN 0 - x.n ELSE x.n) \div 10)
                \o <<".">> \o NatDigits((IF x.n < 0 THEN 0 - x.n ELSE x.n) % 10)
      [] x.k = "nan" -> <<"n", "a", "n">>
      [] OTHER -> <<"N", "o", "n", "e">>

(***************************************************************************)
(* FuzzyMatcher, src/hara_tool/matcher.py.  The matcher's settings are the *)
(* fields enabled, threshold, algorithm, case_sensitive, strip_whitespace  *)
(* of fuzzy_settings.                                                      *)
(***************************************************************************)
\* mutant: the result loses one leading blank instead of all blanks at both ends
PrepareText_TrimsOne(x, case_sensitive, strip_whitespace) ==
    IF isna(x) THEN <<>>
    ELSE TheOnly({IF t2 # <<>> /\ IsSpace(t2[1]) THEN Tail(t2) ELSE t2 :
            t2 \in {IF ~case_sensitive THEN lower(t1) ELSE t1 :
                t1 \in {IF strip_whitespace THEN split_join(t0) ELSE t0 :
                    t0 \in {PyStr(x)}}}})

\* FuzzyMatcher.prepare_string under explicit options, as text
PrepareText(x, case_sensitive, strip_whitespace) ==
    IF isna(x) THEN <<>>
    ELSE TheOnly({strip(t2) :
            t2 \in {IF ~case_sensitive THEN lower(t1) ELSE t1 :
                t1 \in {IF strip_whitespace THEN split_join(t0) ELSE t0 :
                    t0 \in {PyStr(x)}}}})

prepare_string(x) ==
    PrepareText(x, fuzzy_settings.case_sensitive, fuzzy_settings.strip_whitespace)

Max2(x, y) == IF x >= y THEN x ELSE y

\* length of a longest common subsequence of a and b
LCS(a, b) ==
    LET lcs[i \in 0..Len(a), j \in 0..Len(b)] ==
            IF i = 0 \/ j = 0 THEN 0
            ELSE IF a[i] = b[j] THEN 1 + lcs[i - 1, j - 1]
            ELSE Max2(lcs[i - 1, j], lcs[i, j - 1])
    IN  lcs[Len(a), Len(b)]

\* int(round(100 * num / den)), Python's round: halves go to the even integer
RoundDiv(num, den) ==
    LET q == num \div den
        r == num % den
    IN  IF 2 * r < den THEN q
        ELSE IF 2 * r > den THEN q + 1
        ELSE IF q % 2 = 0 THEN q ELSE q + 1

\* fuzz.ratio with python-Levenshtein: 100 * 2 * M / (len(a) + len(b)), M the
\* matched characters of the insert/delete alignment; 0 when a string is empty
fuzz_ratio(a, b) ==
    IF a = <<>> \/ b = <<>> THEN 0
    ELSE RoundDiv(200 * LCS(a, b), Len(a) + Len(b))

\* fuzz.partial_ratio: the shorter string against the windows of its length in the longer
fuzz_partial_ratio(a, b) ==
    IF a = <<>> \/ b = <<>> THEN 0
    ELSE LET short == IF Len(a) <= Len(b) THEN a ELSE b
             long == IF Len(a) <= Len(b) THEN b ELSE a
             scores == {fuzz_ratio(short, SubSeq(long, k, k + Len(short) - 1)) :
                            k \in 1..(Len(long) - Len(short) + 1)}
         IN  CHOOSE m \in scores : \A n \in scores : n <= m

\* text.split(): the words of a text
RECURSIVE Words(_, _)
Words(t, cur) ==
    IF t = <<>> THEN (IF cur = <<>> THEN <<>> ELSE <<cur>>)
    ELSE IF IsSpace(Head(t))
         THEN (IF cur = <<>> THEN <<>> ELSE <<cur>>) \o Words(Tail(t), <<>>)
    ELSE Words(Tail(t), cur \o <<Head(t)>>)

\* lexicographic order of two words by their position in Alphabet
Alphabet == <<" ", "+", "-", ".">> \o Digits \o UpperLetters \o LowerLetters

Rank(ch) ==
    IF \E i \in 1..Len(Alphabet) : Alphabet[i] = ch
    THEN CHOOSE i \in 1..Len(Alphabet) : Alphabet[i] = ch
    ELSE 0

RECURSIVE WordLess(_, _)
WordLess(u, v) ==
    IF v = <<>> THEN FALSE
    ELSE IF u = <<>> THEN TRUE
    ELSE IF Rank(Head(u)) # Rank(Head(v)) THEN Rank(Head(u)) < Rank(Head(v))
    ELSE WordLess(Tail(u), Tail(v))

\* sorted(set of words), joined by single spaces
RECURSIVE SortedJoin(_)
SortedJoin(ws) ==
    IF ws = {} THEN <<>>
    ELSE LET w == CHOOSE u \in ws : \A v \in ws \ {u} : WordLess(u, v)
             rest == SortedJoin(ws \ {w})
         IN  IF rest = <<>> THEN w ELSE w \o <<" ">> \o rest

\* sorted(list of words), joined by single spaces
RECURSIVE InsertWord(_, _)
InsertWord(w, sorted) ==
    IF sorted = <<>> THEN <<w>>
    ELSE IF WordLess(Head(sorted), w) THEN <<Head(sorted)>> \o InsertWord(w, Tail(sorted))
    ELSE <<w>> \o sorted

RECURSIVE SortWords(_)
SortWords(ws) == IF ws = <<>> THEN <<>> ELSE InsertWord(Head(ws), SortWords(Tail(ws)))

RECURSIVE JoinList(_)
JoinList(ws) ==
    IF ws = <<>> THEN <<>>
    ELSE IF Len(ws) = 1 THEN Head(ws)
    ELSE Head(ws) \o <<" ">> \o JoinList(Tail(ws))

\* utils.full_process: characters other than letters and digits become spaces, the
\* text is lowercased and trimmed
IsAlnum(ch) == IsDigit(ch) \/ ch \in UpperSet \/ ch \in LowerSet

full_process(t) == strip(lower([i \in 1..Len(t) |-> IF IsAlnum(t[i]) THEN t[i] ELSE " "]))

\* fuzz.token_sort_ratio
fuzz_token_sort_ratio(a, b) ==
    LET pa == full_process(a)
        pb == full_process(b)
    IN  IF pa = <<>> \/ pb = <<>> THEN 0
        ELSE fuzz_ratio(JoinList(SortWords(Words(pa, <<>>))),
                        JoinList(SortWords(Words(pb, <<>>))))

Max3(x, y, z) ==
    IF x >= y /\ x >= z THEN x ELSE IF y >= z THEN y ELSE z

\* fuzz.token_set_ratio
fuzz_token_set_ratio(a, b) ==
    LET pa == full_process(a)
        pb == full_process(b)
        ta == {Words(pa, <<>>)[i] : i \in 1..Len(Words(pa, <<>>))}
        tb == {Words(pb, <<>>)[i] : i \in 1..Len(Words(pb, <<>>))}
        sect == SortedJoin(ta \cap tb)
        d1 == SortedJoin(ta \ tb)
        d2 == SortedJoin(tb \ ta)
        c1 == strip(sect \o <<" ">> \o d1)
        c2 == strip(sect \o <<" ">> \o d2)
    IN  IF pa = <<>> \/ pb = <<>> THEN 0
        ELSE Max3(fuzz_ratio(sect, c1), fuzz_ratio(sect, c2), fuzz_ratio(c1, c2))

\* the substring tests on the algorithm name; the name is its sequence of words
HasWord(name, w) == \E i \in 1..Len(name) : name[i] = w

HasWords(name, w1, w2) ==
    \E i \in 1..(Len(name) - 1) : name[i] = w1 /\ name[i + 1] = w2

\* the algorithm selected by the setting, on prepared strings
SelectedRatio(s1, s2) ==
    IF s1 = <<>> \/ s2 = <<>> THEN 0
    ELSE IF HasWord(fuzzy_settings.algorithm, "Partial") THEN fuzz_partial_ratio(s1, s2)
    ELSE IF HasWords(fuzzy_settings.algorithm, "Token", "Sort")
         THEN fuzz_token_sort_ratio(s1, s2)
    ELSE IF HasWords(fuzzy_settings.algorithm, "Token", "Set")
         THEN fuzz_token_set_ratio(s1, s2)
    ELSE fuzz_ratio(s1, s2)

\* FuzzyMatcher.calculate_score
calculate_score(str1, str2) ==
    TheOnly({SelectedRatio(s1, s2) :
                s1 \in {prepare_string(str1)}, s2 \in {prepare_string(str2)}})

\* FuzzyMatcher.find_best_match without candidates
NoCandidates == [best_match |-> 0, best_score |-> 0, match_type |-> <<"No candidates">>]

\* FuzzyMatcher.find_best_match before its loop
NoBestYet == [best_match |-> 0, best_score |-> 0, match_type |-> <<"none">>]

\* score > best_score and score >= self.threshold, scores in hundredths
MeetsThreshold(score, best_score) ==
    score > best_score /\ score >= fuzzy_settings.threshold * 100

\* the loop of FuzzyMatcher.find_best_match from candidate j on.  A candidate row is
\* the pair of its cells under column and secondary_column, secondary tells whether a
\* secondary_column was passed, weights are the two weights in percent
RECURSIVE BestMatchScan(_, _, _, _, _, _)
BestMatchScan(target, candidates, secondary, weights, j, best) ==
    IF j > Len(candidates) THEN best
    ELSE LET row == candidates[j] IN
         IF isna(row[1]) THEN BestMatchScan(target, candidates, secondary, weights, j + 1, best)
         ELSE IF prepare_string(target) = prepare_string(row[1])
         THEN [best_match |-> j, best_score |-> 10000, match_type |-> <<"Exact">>]
         ELSE IF fuzzy_settings.enabled
         THEN TheOnly({
              IF MeetsThreshold(score, best.best_score)
              THEN BestMatchScan(target, candidates, secondary, weights, j + 1,
                       [best_match |-> j, best_score |-> score,
                        match_type |->
                            <<"Fuzzy-", fuzzy_settings.algorithm[1], " (">>
                                \o NatDigits(RoundDiv(score, 100)) \o <<"%)">>])
              ELSE BestMatchScan(target, candidates, secondary, weights, j + 1, best) :
                  score \in {IF secondary /\ notna(row[2])
                             THEN calculate_score(target, row[1]) * weights[1]
                                  + calculate_score(target, row[2]) * weights[2]
                             ELSE calculate_score(target, row[1]) * 100}})
         ELSE BestMatchScan(target, candidates, secondary, weights, j + 1, best)

\* FuzzyMatcher.find_best_match
find_best_match(target, candidates, secondary, weights) ==
    IF candidates = <<>> THEN NoCandidates
    ELSE BestMatchScan(target, candidates, secondary, weights, 1, NoBestYet)

(***************************************************************************)
(* ASIL determination, src/hara_tool/constants.py and                      *)
(* ExcelProcessor.determine_asil.get_asil_value                            *)
(***************************************************************************)
\* one row of the table: the grades of C0, C1, C2, C3
Grades(c0, c1, c2, c3) == <<c0, c1, c2, c3>>

\* mutant: the row of S2, E4 holds QM for C2
ASIL_DETERMINATION_TABLE_Dip ==
    (<<1, 1>> :> Grades("QM", "QM", "QM", "QM")) @@
    (<<1, 2>> :> Grades("QM", "QM", "QM", "QM")) @@
    (<<1, 3>> :> Grades("QM", "QM", "QM", "A")) @@
    (<<1, 4>> :> Grades("QM", "QM", "A", "B")) @@
    (<<2, 1>> :> Grades("QM", "QM", "QM", "QM")) @@
    (<<2, 2>> :> Grades("QM", "QM", "QM", "A")) @@
    (<<2, 3>> :> Grades("QM", "QM", "A", "B")) @@
    (<<2, 4>> :> Grades("A", "A", "QM", "C")) @@
    (<<3, 1>> :> Grades("QM", "QM", "A", "B")) @@
    (<<3, 2>> :> Grades("QM", "QM", "B", "C")) @@
    (<<3, 3>> :> Grades("A", "A", "B", "C")) @@
    (<<3, 4>> :> Grades("B", "B", "C", "D"))

\* key ('S<s>', 'E<e>') |-> {'C0': .., 'C1': .., 'C2': .., 'C3': ..}
ASIL_DETERMINATION_TABLE ==
    (<<1, 1>> :> Grades("QM", "QM", "QM", "QM")) @@
    (<<1, 2>> :> Grades("QM", "QM", "QM", "QM")) @@
    (<<1, 3>> :> Grades("QM", "QM", "QM", "A")) @@
    (<<1, 4>> :> Grades("QM", "QM", "A", "B")) @@
    (<<2, 1>> :> Grades("QM", "QM", "QM", "QM")) @@
    (<<2, 2>> :> Grades("QM", "QM", "QM", "A")) @@
    (<<2, 3>> :> Grades("QM", "QM", "A", "B")) @@
    (<<2, 4>> :> Grades("A", "A", "B", "C")) @@
    (<<3, 1>> :> Grades("QM", "QM", "A", "B")) @@
    (<<3, 2>> :> Grades("QM", "QM", "B", "C")) @@
    (<<3, 3>> :> Grades("A", "A", "B", "C")) @@
    (<<3, 4>> :> Grades("B", "B", "C", "D"))

\* mutant: the upper clamp is missing, max(1, e)
ClampExposure_NoUpper(e) == IF e < 1 THEN 1 ELSE e

\* max(1, min(4, e))
ClampExposure(e) == IF e < 1 THEN 1 ELSE IF e > 4 THEN 4 ELSE e

\* mutant: the key is built as (e_key, s_key)
TableLookup_SwappedKey(s_val, e_val, c_val) ==
    IF <<e_val, s_val>> \in DOMAIN ASIL_DETERMINATION_TABLE
    THEN ASIL_DETERMINATION_TABLE[<<e_val, s_val>>][c_val + 1]
    ELSE ""

\* mutant: the controllability column is taken one too low (C1 for C2, C0 for C0)
TableLookup_ColumnBelow(s_val, e_val, c_val) ==
    IF <<s_val, e_val>> \in DOMAIN ASIL_DETERMINATION_TABLE
    THEN ASIL_DETERMINATION_TABLE[<<s_val, e_val>>][IF c_val = 0 THEN 1 ELSE c_val]
    ELSE ""

\* mutant: a missing (S, E) key falls back to QM
TableLookup_DefaultQM(s_val, e_val, c_val) ==
    IF <<s_val, e_val>> \in DOMAIN ASIL_DETERMINATION_TABLE
    THEN ASIL_DETERMINATION_TABLE[<<s_val, e_val>>][c_val + 1]
    ELSE "QM"

\* ASIL_DETERMINATION_TABLE[(s_key, e_key)].get(c_key, '') behind the membership test
TableLookup(s_val, e_val, c_val) ==
    IF <<s_val, e_val>> \in DOMAIN ASIL_DETERMINATION_TABLE
    THEN IF c_val + 1 \in DOMAIN ASIL_DETERMINATION_TABLE[<<s_val, e_val>>]
         THEN ASIL_DETERMINATION_TABLE[<<s_val, e_val>>][c_val + 1]
         ELSE ""
    ELSE ""

\* mutant: a missing or empty controllability is read as 0
get_asil_value_DefaultC(e, s, c) ==
    IF isna(s) \/ IsEmptyStr(s) THEN ""
    ELSE LET ei == PyInt(e)
             si == PyInt(s)
             ci == IF isna(c) \/ IsEmptyStr(c) THEN Returned(0) ELSE PyInt(c)
         IN  IF ~ei.ok \/ ~si.ok \/ ~ci.ok THEN ""
             ELSE IF ~(0 <= si.v /\ si.v <= 3) \/ ~(0 <= ci.v /\ ci.v <= 3) THEN ""
             ELSE TableLookup(si.v, ClampExposure(ei.v), ci.v)

get_asil_value(e, s, c) ==
    IF isna(s) \/ IsEmptyStr(s) \/ isna(c) \/ IsEmptyStr(c) THEN ""
    ELSE LET ei == PyInt(e)
             si == PyInt(s)
             ci == PyInt(c)
         IN  IF ~ei.ok \/ ~si.ok \/ ~ci.ok THEN ""
             ELSE IF ~(0 <= si.v /\ si.v <= 3) \/ ~(0 <= ci.v /\ ci.v <= 3) THEN ""
             ELSE TableLookup(si.v, ClampExposure(ei.v), ci.v)

(***************************************************************************)
(* ExcelProcessor.match_risk_assessment, src/hara_tool/processor.py.       *)
(* A sheet is [columns, rows]: columns the header texts in sheet order,    *)
(* each row the cells under them.  A resolved column is its position, 0    *)
(* when the sheet has no such column (Python None).  Scores are kept in    *)
(* hundredths of a point: weight percent times score.                      *)
(***************************************************************************)
N_OS == <<"o", "p", "e", "r", "a", "t", "i", "n", "g", " ", "s", "c", "e", "n", "a", "r", "i", "o">>
N_HAZARD == <<"h", "a", "z", "a", "r", "d">>
N_HE == <<"h", "a", "z", "a", "r", "d", "o", "u", "s", " ", "e", "v", "e", "n", "t">>
N_DETAILS == <<"d", "e", "t", "a", "i", "l", "s", " ", "o", "f", " ", "h", "a", "z", "a", "r", "d", "o", "u", "s", " ", "e", "v", "e", "n", "t">>
N_PEOPLE == <<"p", "e", "o", "p", "l", "e", " ", "a", "t", " ", "r", "i", "s", "k">>
N_DELTA_V == <<"delta", "v">>
N_DELTAV == <<"d", "e", "l", "t", "a", "v">>
N_CAP_DELTA_V == <<"DELTA", "v">>
N_S == <<"s">>
N_C == <<"c">>
N_SRAT == <<"s", "e", "v", "e", "r", "i", "t", "y", " ", "r", "a", "t", "i", "o", "n", "a", "l">>
N_CRAT == <<"c", "o", "n", "t", "r", "o", "l", "l", "a", "b", "i", "l", "i", "t", "y", " ", "r", "a", "t", "i", "o", "n", "a", "l">>

\* COLUMN_MAPPINGS, src/hara_tool/constants.py: the recognized names of each logical column
COLUMN_MAPPINGS ==
    "operating_scenario" :>
        {<<"o", "p", "e", "r", "a", "t", "i", "n", "g", " ", "s", "c", "e", "n", "a", "r", "i",
           "o">>,
         <<"o", "s">>,
         <<"o", "p", "e", "r", "a", "t", "i", "n", "g", "_", "s", "c", "e", "n", "a", "r", "i",
           "o">>,
         <<"o", "p", "e", "r", "a", "t", "i", "n", "g", " ", "s", "c", "e", "n", "a", "r", "i",
           "o", "s">>}
 @@ "hazard" :>
        {<<"h", "a", "z", "a", "r", "d">>,
         <<"h", "a", "z", "a", "r", "d", "s">>}
 @@ "hazardous_event" :>
        {<<"h", "a", "z", "a", "r", "d", "o", "u", "s", " ", "e", "v", "e", "n", "t">>,
         <<"h", "e">>,
         <<"h", "a", "z", "a", "r", "d", "o", "u", "s", "_", "e", "v", "e", "n", "t">>}
 @@ "details" :>
        {<<"d", "e", "t", "a", "i", "l", "s", " ", "o", "f", " ", "h", "a", "z", "a", "r", "d",
           "o", "u", "s", " ", "e", "v", "e", "n", "t">>,
         <<"d", "e", "t", "a", "i", "l", "s">>,
         <<"h", "e", "_", "d", "e", "t", "a", "i", "l", "s">>}
 @@ "people_at_risk" :>
        {<<"p", "e", "o", "p", "l", "e", " ", "a", "t", " ", "r", "i", "s", "k">>,
         <<"p", "e", "o", "p", "l", "e">>,
         <<"p", "e", "r", "s", "o", "n", "s", "_", "a", "t", "_", "r", "i", "s", "k">>}
 @@ "delta_v" :>
        {<<"delta", "v">>,
         <<"d", "e", "l", "t", "a", "v">>,
         <<"DELTA", "v">>,
         <<"d", "e", "l", "t", "a", "_", "v">>}
 @@ "severity" :>
        {<<"s">>,
         <<"s", "e", "v", "e", "r", "i", "t", "y">>,
         <<"S">>,
         <<"S", "e", "v", "e", "r", "i", "t", "y">>,
         <<"s", "e", "v", "e", "r", "i", "t", "y", " ", "r", "a", "t", "i", "n", "g">>,
         <<"s", "e", "v", "e", "r", "i", "t", "y", " ", "l", "e", "v", "e", "l">>}
 @@ "exposure" :>
        {<<"e">>,
         <<"e", "x", "p", "o", "s", "u", "r", "e">>,
         <<"E">>,
         <<"E", "x", "p", "o", "s", "u", "r", "e">>,
         <<"e", "x", "p", "o", "s", "u", "r", "e", " ", "r", "a", "t", "i", "n", "g">>,
         <<"e", "x", "p", "o", "s", "u", "r", "e", " ", "l", "e", "v", "e", "l">>}
 @@ "controllability" :>
        {<<"c">>,
         <<"c", "o", "n", "t", "r", "o", "l", "l", "a", "b", "i", "l", "i", "t", "y">>,
         <<"C">>,
         <<"C", "o", "n", "t", "r", "o", "l", "l", "a", "b", "i", "l", "i", "t", "y">>,
         <<"c", "o", "n", "t", "r", "o", "l", "l", "a", "b", "i", "l", "i", "t", "y", " ", "r",
           "a", "t", "i", "n", "g">>,
         <<"c", "o", "n", "t", "r", "o", "l", "l", "a", "b", "i", "l", "i", "t", "y", " ", "l",
           "e", "v", "e", "l">>}
 @@ "severity_rationale" :>
        {<<"s", "e", "v", "e", "r", "i", "t", "y", " ", "r", "a", "t", "i", "o", "n", "a", "l">>,
         <<"s", "e", "v", "e", "r", "i", "t", "y", "_", "r", "a", "t", "i", "o", "n", "a", "l",
           "e">>,
         <<"s", "_", "r", "a", "t", "i", "o", "n", "a", "l", "e">>,
         <<"s", "e", "v", "e", "r", "i", "t", "y", " ", "r", "a", "t", "i", "o", "n", "a", "l",
           "e">>}
 @@ "controllability_rationale" :>
        {<<"c", "o", "n", "t", "r", "o", "l", "l", "a", "b", "i", "l", "i", "t", "y", " ", "r",
           "a", "t", "i", "o", "n", "a", "l">>,
         <<"c", "o", "n", "t", "r", "o", "l", "l", "a", "b", "i", "l", "i", "t", "y", "_", "r",
           "a", "t", "i", "o", "n", "a", "l", "e">>,
         <<"c", "_", "r", "a", "t", "i", "o", "n", "a", "l", "e">>,
         <<"c", "o", "n", "t", "r", "o", "l", "l", "a", "b", "i", "l", "i", "t", "y", " ", "r",
           "a", "t", "i", "o", "n", "a", "l", "e">>}

RECURSIVE FirstColumn(_, _, _)
FirstColumn(columns, column_name, j) ==
    IF j > Len(columns) THEN 0
    ELSE IF lower(strip(columns[j])) = lower(column_name) THEN j
    ELSE FirstColumn(columns, column_name, j + 1)

find_column_case_insensitive(df, column_name) == FirstColumn(df.columns, column_name, 1)

\* a or b on two resolved columns
OrCol(a, b) == IF a # 0 THEN a ELSE b

\* the columns match_risk_assessment resolves before its loop
ResolvedColumns(df) ==
    [os |-> find_column_case_insensitive(df, N_OS),
     hazard |-> find_column_case_insensitive(df, N_HAZARD),
     he |-> find_column_case_insensitive(df, N_HE),
     details |-> find_column_case_insensitive(df, N_DETAILS),
     people |-> find_column_case_insensitive(df, N_PEOPLE),
     delta |-> OrCol(find_column_case_insensitive(df, N_DELTA_V),
                     OrCol(find_column_case_insensitive(df, N_DELTAV),
                           find_column_case_insensitive(df, N_CAP_DELTA_V))),
     s |-> find_column_case_insensitive(df, N_S),
     s_rational |-> find_column_case_insensitive(df, N_SRAT),
     c |-> find_column_case_insensitive(df, N_C),
     c_rational |-> find_column_case_insensitive(df, N_CRAT)]

Unresolved ==
    [os |-> 0, hazard |-> 0, he |-> 0, details |-> 0, people |-> 0, delta |-> 0,
     s |-> 0, s_rational |-> 0, c |-> 0, c_rational |-> 0]

ra_os_col == ra_cols.os
ra_hazard_col == ra_cols.hazard
ra_he_col == ra_cols.he
ra_details_col == ra_cols.details
ra_people_col == ra_cols.people
ra_delta_col == ra_cols.delta
ra_s_col == ra_cols.s
ra_s_rational_col == ra_cols.s_rational
ra_c_col == ra_cols.c
ra_c_rational_col == ra_cols.c_rational

\* row.get(col): the cell, None when the column was not resolved
Get(row, col) == IF col = 0 THEN None ELSE row[col]

NoMatchYet == [best_match |-> 0, best_score |-> 0, match_type |-> "none", match_details |-> <<>>]

\* mutant: the loop does not break, a later matching row replaces an earlier one
RECURSIVE ExactScan_NoBreak(_, _, _)
ExactScan_NoBreak(os_text, hazard, j) ==
    IF j > Len(ra_df.rows) THEN NoMatchYet
    ELSE TheOnly({
         LET ra_row == ra_df.rows[j]
             here ==
                 IF isna(Get(ra_row, ra_os_col)) THEN NoMatchYet
                 ELSE IF prepare_string(os_text) = prepare_string(ra_row[ra_os_col])
                 THEN IF Truthy(hazard) /\ ra_hazard_col # 0
                      THEN IF notna(Get(ra_row, ra_hazard_col))
                              /\ prepare_string(hazard) = prepare_string(ra_row[ra_hazard_col])
                           THEN [best_match |-> j, best_score |-> 10000,
                                 match_type |-> "exact",
                                 match_details |-> <<"Exact (OS+Hazard)">>]
                           ELSE NoMatchYet
                      ELSE [best_match |-> j, best_score |-> 10000, match_type |-> "exact",
                            match_details |-> <<"Exact (OS)">>]
                 ELSE NoMatchYet
         IN  IF later.best_match # 0 THEN later ELSE here :
             later \in {ExactScan_NoBreak(os_text, hazard, j + 1)}})

\* mutant: a row with equal scenario text and another hazard is taken as "Exact (OS)"
RECURSIVE ExactScan_FallsBack(_, _, _)
ExactScan_FallsBack(os_text, hazard, j) ==
    IF j > Len(ra_df.rows) THEN NoMatchYet
    ELSE LET ra_row == ra_df.rows[j] IN
         IF isna(Get(ra_row, ra_os_col)) THEN ExactScan_FallsBack(os_text, hazard, j + 1)
         ELSE IF prepare_string(os_text) = prepare_string(ra_row[ra_os_col])
         THEN IF Truthy(hazard) /\ ra_hazard_col # 0
                 /\ notna(Get(ra_row, ra_hazard_col))
                 /\ prepare_string(hazard) = prepare_string(ra_row[ra_hazard_col])
              THEN [best_match |-> j, best_score |-> 10000, match_type |-> "exact",
                    match_details |-> <<"Exact (OS+Hazard)">>]
              ELSE [best_match |-> j, best_score |-> 10000, match_type |-> "exact",
                    match_details |-> <<"Exact (OS)">>]
         ELSE ExactScan_FallsBack(os_text, hazard, j + 1)

\* the exact matching phase from RA row j on
RECURSIVE ExactScan(_, _, _)
ExactScan(os_text, hazard, j) ==
    IF j > Len(ra_df.rows) THEN NoMatchYet
    ELSE LET ra_row == ra_df.rows[j] IN
         IF isna(Get(ra_row, ra_os_col)) THEN ExactScan(os_text, hazard, j + 1)
         ELSE IF prepare_string(os_text) = prepare_string(ra_row[ra_os_col])
         THEN IF Truthy(hazard) /\ ra_hazard_col # 0
              THEN IF notna(Get(ra_row, ra_hazard_col))
                      /\ prepare_string(hazard) = prepare_string(ra_row[ra_hazard_col])
                   THEN [best_match |-> j, best_score |-> 10000, match_type |-> "exact",
                         match_details |-> <<"Exact (OS+Hazard)">>]
                   ELSE ExactScan(os_text, hazard, j + 1)
              ELSE [best_match |-> j, best_score |-> 10000, match_type |-> "exact",
                    match_details |-> <<"Exact (OS)">>]
         ELSE ExactScan(os_text, hazard, j + 1)

\* f"{score:.0f}" of a score in hundredths
Format0f(score) == NatDigits(RoundDiv(score, 100))

\* the combined score of one RA row in the fuzzy phase, in hundredths
FuzzyScore(os_text, hazard, ra_row) ==
    LET ra_os_text == TextCell(strip(PyStr(ra_row[ra_os_col])))
        os_score == calculate_score(os_text, ra_os_text)
    IN  IF Truthy(hazard) /\ ra_hazard_col # 0 /\ notna(Get(ra_row, ra_hazard_col))
        THEN os_score * fuzzy_settings.os_weight
             + calculate_score(hazard, TextCell(PyStr(ra_row[ra_hazard_col])))
               * fuzzy_settings.hazard_weight
        ELSE os_score * 100

\* score > best_score and score >= self.matcher.threshold
Qualifies(score, best_score) ==
    score > best_score /\ score >= fuzzy_settings.threshold * 100

\* self.matcher.algorithm.split(' ')[0]: the first word of the algorithm setting
algorithm_name(algorithm) == algorithm[1]

\* the fuzzy matching phase from RA row j on, best the running best
RECURSIVE FuzzyScan(_, _, _, _)
FuzzyScan(os_text, hazard, j, best) ==
    IF j > Len(ra_df.rows) THEN best
    ELSE LET ra_row == ra_df.rows[j] IN
         IF isna(Get(ra_row, ra_os_col)) THEN FuzzyScan(os_text, hazard, j + 1, best)
         ELSE TheOnly({
              IF Qualifies(score, best.best_score)
              THEN FuzzyScan(os_text, hazard, j + 1,
                       [best_match |-> j, best_score |-> score, match_type |-> "fuzzy",
                        match_details |->
                            <<"Fuzzy-", algorithm_name(fuzzy_settings.algorithm), " (">>
                                \o Format0f(score) \o <<"%)">>])
              ELSE FuzzyScan(os_text, hazard, j + 1, best) :
                  score \in {FuzzyScore(os_text, hazard, ra_row)}})

\* mutant: the enabled setting is not consulted
RunsFuzzyPhase_IgnoresEnabled(exact) == exact.best_score < 10000

\* if best_score < 100 and self.matcher.enabled
RunsFuzzyPhase(exact) == exact.best_score < 10000 /\ fuzzy_settings.enabled

\* both phases for one scenario record: the loop's locals after the fuzzy phase
FindMatch(os_text, hazard) ==
    TheOnly({IF RunsFuzzyPhase(exact) THEN FuzzyScan(os_text, hazard, 1, exact) ELSE exact :
                exact \in {ExactScan(os_text, hazard, 1)}})

\* S and C of a matched row: int() of the cell, kept only inside [0, 3]
ValidatedLevel(best_row, col) ==
    IF col # 0 /\ notna(Get(best_row, col))
    THEN LET r == PyInt(best_row[col])
         IN  IF r.ok THEN (IF 0 <= r.v /\ r.v <= 3 THEN IntCell(r.v) ELSE EmptyMarker)
             ELSE EmptyMarker
    ELSE EmptyMarker

\* if col: matched_row[key] = best_match.get(col, '')
Copied(key, best_row, col) == IF col # 0 THEN key :> best_row[col] ELSE <<>>

\* mutant: with no match S and C default to 0
NoMatchFields_DefaultLevels ==
    ("Hazardous Event" :> EmptyMarker) @@ ("Details of Hazardous event" :> EmptyMarker)
        @@ ("people at risk" :> EmptyMarker) @@ ("Delta v" :> EmptyMarker)
        @@ ("S" :> IntCell(0)) @@ ("Severity Rational" :> EmptyMarker)
        @@ ("C" :> IntCell(0)) @@ ("Controllability Rational" :> EmptyMarker)

\* matched_row.update({...}) when best_match is None
NoMatchFields ==
    ("Hazardous Event" :> EmptyMarker) @@ ("Details of Hazardous event" :> EmptyMarker)
        @@ ("people at risk" :> EmptyMarker) @@ ("Delta v" :> EmptyMarker)
        @@ ("S" :> EmptyMarker) @@ ("Severity Rational" :> EmptyMarker)
        @@ ("C" :> EmptyMarker) @@ ("Controllability Rational" :> EmptyMarker)

\* mutant: Match_Score shows the score of exact matches only
MatchedRow_ExactScoreOnly(rec, m) ==
    LET best_row == ra_df.rows[m.best_match]
        base ==
            ("Operating Scenario" :> rec.os) @@ ("E" :> rec.E)
            @@ ("Hazard" :>
                    IF Truthy(rec.Hazard) THEN rec.Hazard
                    ELSE IF m.best_match # 0 /\ ra_hazard_col # 0
                         THEN best_row[ra_hazard_col] ELSE EmptyMarker)
            @@ ("Match_Type" :>
                    TextCell(IF m.match_details # <<>> THEN m.match_details
                             ELSE <<"No match">>))
            @@ ("Match_Score" :>
                    TextCell(IF m.match_type = "exact" THEN Format0f(m.best_score) \o <<"%">>
                             ELSE <<"0", "%">>))
    IN  IF m.best_match # 0
        THEN base
             @@ Copied("Hazardous Event", best_row, ra_he_col)
             @@ Copied("Details of Hazardous event", best_row, ra_details_col)
             @@ Copied("people at risk", best_row, ra_people_col)
             @@ Copied("Delta v", best_row, ra_delta_col)
             @@ ("S" :> ValidatedLevel(best_row, ra_s_col))
             @@ Copied("Severity Rational", best_row, ra_s_rational_col)
             @@ ("C" :> ValidatedLevel(best_row, ra_c_col))
             @@ Copied("Controllability Rational", best_row, ra_c_rational_col)
        ELSE base @@ NoMatchFields

\* the dict appended for one scenario record, given the loop's locals
MatchedRow(rec, m) ==
    LET best_row == ra_df.rows[m.best_match]
        base ==
            ("Operating Scenario" :> rec.os) @@ ("E" :> rec.E)
            @@ ("Hazard" :>
                    IF Truthy(rec.Hazard) THEN rec.Hazard
                    ELSE IF m.best_match # 0 /\ ra_hazard_col # 0
                         THEN best_row[ra_hazard_col] ELSE EmptyMarker)
            @@ ("Match_Type" :>
                    TextCell(IF m.match_details # <<>> THEN m.match_details
                             ELSE <<"No match">>))
            @@ ("Match_Score" :>
                    TextCell(IF m.best_score > 0 THEN Format0f(m.best_score) \o <<"%">>
                             ELSE <<"0", "%">>))
    IN  IF m.best_match # 0
        THEN base
             @@ Copied("Hazardous Event", best_row, ra_he_col)
             @@ Copied("Details of Hazardous event", best_row, ra_details_col)
             @@ Copied("people at risk", best_row, ra_people_col)
             @@ Copied("Delta v", best_row, ra_delta_col)
             @@ ("S" :> ValidatedLevel(best_row, ra_s_col))
             @@ Copied("Severity Rational", best_row, ra_s_rational_col)
             @@ ("C" :> ValidatedLevel(best_row, ra_c_col))
             @@ Copied("Controllability Rational", best_row, ra_c_rational_col)
        ELSE base @@ NoMatchFields

(***************************************************************************)
(* The signals of ExcelProcessor.run: progress(int), log(str),             *)
(* finished(DataFrame) and error(str).  A log line is named by its fixed   *)
(* text, an error by the message of the exception caught.                  *)
(***************************************************************************)
Progress(n) == [t |-> "progress", m |-> "", n |-> n]
Log(m) == [t |-> "log", m |-> m, n |-> 0]
FinishedEvent(df) == [t |-> "finished", m |-> "", n |-> Len(df)]
ErrorEvent(message) == [t |-> "error", m |-> message, n |-> 0]

\* what run() has emitted when it calls match_risk_assessment
EventsBeforeMatch ==
    <<Log("Loading Operating Scenario sheet"), Progress(20),
      Log("Loading Risk Assessment sheet"), Progress(30),
      Log("Processing Operating Scenarios..."), Progress(40),
      Log("Found columns"), Log("Processed operating scenarios"),
      Log("Matching scenarios"), Progress(60)>>

\* the end of match_risk_assessment and run()'s step 4 up to the call of determine_asil
EventsAfterMatch == <<Log("Matching complete"), Log("Determining ASIL values..."), Progress(80)>>

\* mutant: the result is emitted before the last milestone
EventsOfCompletion_ResultFirst(df) ==
    <<Log("ASIL determination"), Log("Processing completed successfully"),
      FinishedEvent(df), Progress(100)>>

\* the end of determine_asil and run()'s last three emits
EventsOfCompletion(df) ==
    <<Log("ASIL determination"), Log("Processing completed successfully"),
      Progress(100), FinishedEvent(df)>>

(***************************************************************************)
(* ExcelProcessor.process_operating_scenarios                              *)
(***************************************************************************)
N_E == <<"e">>

\* sub in t, for texts
Contains(t, sub) ==
    \E i \in 0..(Len(t) - Len(sub)) : \A j \in 1..Len(sub) : t[i + j] = sub[j]

\* the columns whose name contains 'hazard', the scenario column excepted
hazard_cols(df, os_col) ==
    {c \in 1..Len(df.columns) : Contains(lower(df.columns[c]), N_HAZARD) /\ c # os_col}

\* mutant: the missing scenario column is not noticed
ScenarioColumnMissing_Unnoticed(os_col) == FALSE

\* if not os_col
ScenarioColumnMissing(os_col) == os_col = 0

\* mutant: only a missing scenario cell is skipped, a blank one is kept
KeepsRow_BlankKept(row, os_col) == ~isna(Get(row, os_col))

\* the row is not skipped: its scenario cell is neither missing nor blank
KeepsRow(row, os_col) ==
    ~(isna(Get(row, os_col)) \/ strip(PyStr(row[os_col])) = <<>>)

\* e_value: int() of the E cell, 4 when there is no E column, no cell or no integer
ExposureOf(row, e_col) ==
    IF e_col # 0 /\ ~isna(Get(row, e_col))
    THEN TheOnly({IF r.ok THEN r.v ELSE 4 : r \in {PyInt(row[e_col])}})
    ELSE 4

\* mutant: the last hazard found is taken
HazardOf_Last(row, h_cols) ==
    LET found == {c \in h_cols : ~isna(row[c]) /\ strip(PyStr(row[c])) # <<>>}
    IN  IF found = {} THEN None ELSE TextCell(strip(PyStr(row[Greatest(found)])))

\* hazards[0] if hazards else None
HazardOf(row, h_cols) ==
    LET found == {c \in h_cols : ~isna(row[c]) /\ strip(PyStr(row[c])) # <<>>}
    IN  IF found = {} THEN None ELSE TextCell(strip(PyStr(row[Least(found)])))

\* the records appended for the rows from i on
RECURSIVE ExtractRows(_, _, _, _, _)
ExtractRows(df, os_col, e_col, h_cols, i) ==
    IF i > Len(df.rows) THEN <<>>
    ELSE (IF KeepsRow(df.rows[i], os_col)
          THEN <<[os |-> TextCell(strip(PyStr(df.rows[i][os_col]))),
                  E |-> IntCell(ExposureOf(df.rows[i], e_col)),
                  Hazard |-> HazardOf(df.rows[i], h_cols),
                  Original_Index |-> i - 1]>>
          ELSE <<>>)
         \o ExtractRows(df, os_col, e_col, h_cols, i + 1)

\* raised: ValueError("Operating Scenario column not found"); else the records
process_operating_scenarios(df) ==
    TheOnly({[raised |-> ScenarioColumnMissing(os_col),
              records |-> IF ScenarioColumnMissing(os_col) THEN <<>>
                          ELSE ExtractRows(df, os_col, find_column_case_insensitive(df, N_E),
                                           hazard_cols(df, os_col), 1)] :
                os_col \in {find_column_case_insensitive(df, N_OS)}})

\* match_risk_assessment is entered: the columns are resolved, the counters zeroed
MatchBegin ==
    /\ pc = "resolve"
    /\ ra_cols' = ResolvedColumns(ra_df)
    /\ matched_results' = <<>>
    /\ exact_matches' = 0
    /\ fuzzy_matches' = 0
    /\ no_matches' = 0
    /\ pc' = "match"
    /\ UNCHANGED <<fuzzy_settings, ra_df, processed_df, locals, final_df, os_df, readable,
                   events, asil_vars, fm_vars, gui_vars>>

\* mutant: a fuzzy match is counted as unmatched as well
MatchScenario_FuzzyCountedTwice ==
    /\ pc = "match"
    /\ Len(matched_results) < Len(processed_df)
    /\ \E rec \in {processed_df[Len(matched_results) + 1]} :
       \E m \in {FindMatch(rec.os, rec.Hazard)} :
           /\ locals' = Append(locals, m)
           /\ exact_matches' = exact_matches + (IF m.match_type = "exact" THEN 1 ELSE 0)
           /\ fuzzy_matches' = fuzzy_matches + (IF m.match_type = "fuzzy" THEN 1 ELSE 0)
           /\ no_matches' = no_matches + (IF m.match_type # "exact" THEN 1 ELSE 0)
           /\ matched_results' = Append(matched_results, MatchedRow(rec, m))
    /\ UNCHANGED <<fuzzy_settings, ra_df, ra_cols, processed_df, final_df, os_df, readable,
                   events, pc, asil_vars, fm_vars, gui_vars>>

\* one iteration of the loop over processed_df
MatchScenario ==
    /\ pc = "match"
    /\ Len(matched_results) < Len(processed_df)
    /\ \E rec \in {processed_df[Len(matched_results) + 1]} :
       \E m \in {FindMatch(rec.os, rec.Hazard)} :
           /\ locals' = Append(locals, m)
           /\ exact_matches' = exact_matches + (IF m.match_type = "exact" THEN 1 ELSE 0)
           /\ fuzzy_matches' = fuzzy_matches + (IF m.match_type = "fuzzy" THEN 1 ELSE 0)
           /\ no_matches' = no_matches
                            + (IF m.match_type \notin {"exact", "fuzzy"} THEN 1 ELSE 0)
           /\ matched_results' = Append(matched_results, MatchedRow(rec, m))
    /\ UNCHANGED <<fuzzy_settings, ra_df, ra_cols, processed_df, final_df, os_df, readable,
                   events, pc, asil_vars, fm_vars, gui_vars>>

\* the loop is over: the counts are logged and the rows returned as a table
MatchComplete ==
    /\ pc = "match"
    /\ Len(matched_results) = Len(processed_df)
    /\ pc' = "asil"
    /\ events' = events \o EventsAfterMatch
    /\ UNCHANGED <<fuzzy_settings, ra_df, ra_cols, processed_df, matched_results, locals,
                   exact_matches, fuzzy_matches, no_matches, final_df, os_df, readable,
                   asil_vars, fm_vars, gui_vars>>

AsilCell(grade) == TextCell(IF grade = "" THEN <<>> ELSE <<grade>>)

\* mutant: the exposure is stored as it was clamped for the lookup
determine_asil_StoresClamped(matched_df) ==
    [r \in 1..Len(matched_df) |->
        ("ASIL" :> AsilCell(get_asil_value(matched_df[r]["E"], matched_df[r]["S"],
                                           matched_df[r]["C"])))
            @@ ("E" :> IF matched_df[r]["E"].k = "int"
                       THEN IntCell(ClampExposure(matched_df[r]["E"].n))
                       ELSE matched_df[r]["E"])
            @@ matched_df[r]]

\* ExcelProcessor.determine_asil: the ASIL column is added to every row
determine_asil(matched_df) ==
    [r \in 1..Len(matched_df) |->
        matched_df[r]
            @@ ("ASIL" :> AsilCell(get_asil_value(matched_df[r]["E"], matched_df[r]["S"],
                                                  matched_df[r]["C"])))]

\* matched_df['ASIL'] = matched_df.apply(..., axis=1): on a table without rows and
\* columns apply returns an empty table, and its assignment to a column raises
\* ValueError or leaves the empty table, as the pandas build decides
AssignmentOutcomes(matched_df) ==
    IF matched_df = <<>> THEN {"raised", "returned"} ELSE {"returned"}

\* determine_asil is called and run() ends: with finished(final_df), or with error(...)
\* for the exception caught
DetermineAsil ==
    /\ pc = "asil"
    /\ \E outcome \in AssignmentOutcomes(matched_results) :
          IF outcome = "returned"
          THEN /\ final_df' = determine_asil(matched_results)
               /\ events' = events \o EventsOfCompletion(determine_asil(matched_results))
               /\ pc' = "finished"
          ELSE /\ final_df' = final_df
               /\ events' = events \o <<ErrorEvent("Cannot set a DataFrame without columns")>>
               /\ pc' = "failed"
    /\ UNCHANGED <<fuzzy_settings, ra_df, ra_cols, processed_df, matched_results, locals,
                   exact_matches, fuzzy_matches, no_matches, os_df, readable,
                   asil_vars, fm_vars, gui_vars>>

NextPipe == MatchBegin \/ MatchScenario \/ MatchComplete \/ DetermineAsil

\* run(), step 1: the Operating Scenario sheet is read
LoadOperatingScenarios ==
    /\ pc = "start"
    /\ IF "os" \in readable
       THEN /\ events' = events \o <<Log("Loading Operating Scenario sheet"), Progress(20)>>
            /\ pc' = "load_ra"
       ELSE /\ events' = events \o <<Log("Loading Operating Scenario sheet"), Progress(20),
                                      ErrorEvent("Worksheet not found")>>
            /\ pc' = "failed"
    /\ UNCHANGED <<fuzzy_settings, ra_df, ra_cols, processed_df, matched_results, locals,
                   exact_matches, fuzzy_matches, no_matches, final_df, os_df, readable,
                   asil_vars, fm_vars, gui_vars>>

\* run(), step 1: the Risk Assessment sheet is read
LoadRiskAssessment ==
    /\ pc = "load_ra"
    /\ IF "ra" \in readable
       THEN /\ events' = events \o <<Log("Loading Risk Assessment sheet"), Progress(30)>>
            /\ pc' = "process"
       ELSE /\ events' = events \o <<Log("Loading Risk Assessment sheet"), Progress(30),
                                      ErrorEvent("Worksheet not found")>>
            /\ pc' = "failed"
    /\ UNCHANGED <<fuzzy_settings, ra_df, ra_cols, processed_df, matched_results, locals,
                   exact_matches, fuzzy_matches, no_matches, final_df, os_df, readable,
                   asil_vars, fm_vars, gui_vars>>

\* run(), step 2 and the start of step 3: process_operating_scenarios(os_df) returns the
\* records and matching is announced, or it raises and run() ends with error(...)
ProcessOperatingScenarios ==
    /\ pc = "process"
    /\ \E p \in {process_operating_scenarios(os_df)} :
          IF p.raised
          THEN /\ processed_df' = processed_df
               /\ events' = events \o <<Log("Processing Operating Scenarios..."), Progress(40),
                                         ErrorEvent("Operating Scenario column not found")>>
               /\ pc' = "failed"
          ELSE /\ processed_df' = p.records
               /\ events' = events \o <<Log("Processing Operating Scenarios..."), Progress(40),
                                         Log("Found columns"),
                                         Log("Processed operating scenarios"),
                                         Log("Matching scenarios"), Progress(60)>>
               /\ pc' = "resolve"
    /\ UNCHANGED <<fuzzy_settings, ra_df, ra_cols, matched_results, locals,
                   exact_matches, fuzzy_matches, no_matches, final_df, os_df, readable,
                   asil_vars, fm_vars, gui_vars>>

NextRun ==
    LoadOperatingScenarios \/ LoadRiskAssessment \/ ProcessOperatingScenarios \/ NextPipe

(***************************************************************************)
(* Calls of get_asil_value on arguments drawn from bounded sets            *)
(***************************************************************************)
\* exposures from -ExposureSpan to 4 + ExposureSpan
ExposureSpan == 2
\* severity / controllability integers from -LevelSpan to 3 + LevelSpan
LevelSpan == 1

ExposureArgs ==
    {IntCell(i) : i \in ((0 - ExposureSpan)..(4 + ExposureSpan)) \cup {99}}
        \cup {TextCell(<<"x">>)}

LevelArgs ==
    {IntCell(i) : i \in (0 - LevelSpan)..(3 + LevelSpan)}
        \cup {NaN, EmptyMarker, FloatCell(20), TextCell(<<"2">>), TextCell(<<"x">>)}

\* no FuzzyMatcher call is under way
FmIdle ==
    /\ fm_args = <<>>
    /\ fm_out = <<>>
    /\ fm_pc = "idle"

\* HARAMainWindow.__init__ and init_ui: no file, no result, the three buttons disabled
GuiIdle ==
    /\ user_file = None
    /\ result_df = None
    /\ process_btn = FALSE
    /\ save_btn = FALSE
    /\ export_btn = FALSE
    /\ processors = <<>>
    /\ written = <<>>
    /\ app = "running"

AsilIdle ==
    /\ arg_e = NaN
    /\ arg_s = NaN
    /\ arg_c = NaN
    /\ asil_out = "unset"
    /\ asil_pc = "idle"

\* DEFAULT_SETTINGS, src/hara_tool/constants.py
DEFAULT_SETTINGS ==
    [enabled |-> TRUE, threshold |-> 80, algorithm |-> <<"Ratio", "(Default)">>,
     case_sensitive |-> FALSE, strip_whitespace |-> TRUE,
     os_weight |-> 70, hazard_weight |-> 30]

PipeIdle ==
    /\ fuzzy_settings = DEFAULT_SETTINGS
    /\ ra_df = [columns |-> <<>>, rows |-> <<>>]
    /\ ra_cols = Unresolved
    /\ processed_df = <<>>
    /\ matched_results = <<>>
    /\ locals = <<>>
    /\ exact_matches = 0
    /\ fuzzy_matches = 0
    /\ no_matches = 0
    /\ final_df = <<>>
    /\ os_df = [columns |-> <<>>, rows |-> <<>>]
    /\ readable = {}
    /\ events = <<>>
    /\ pc = "idle"

InitAsil ==
    /\ arg_e \in ExposureArgs
    /\ arg_s \in LevelArgs
    /\ arg_c \in LevelArgs
    /\ asil_out = "unset"
    /\ asil_pc = "call"
    /\ PipeIdle
    /\ FmIdle
    /\ GuiIdle

CallGetAsilValue ==
    /\ asil_pc = "call"
    /\ asil_out' = get_asil_value(arg_e, arg_s, arg_c)
    /\ asil_pc' = "done"
    /\ UNCHANGED <<arg_e, arg_s, arg_c, pipe_vars, fm_vars, gui_vars>>

NextAsil == CallGetAsilValue

(***************************************************************************)
(* Runs of the pipeline from match_risk_assessment on: the settings, the   *)
(* scenario records and the Risk Assessment sheet are drawn from bounded   *)
(* sets.                                                                   *)
(***************************************************************************)
\* most rows of a Risk Assessment sheet
MaxRaRows == 2

H_OS == <<"O", "p", "e", "r", "a", "t", "i", "n", "g", " ", "S", "c", "e", "n", "a", "r", "i", "o">>
H_HAZARD == <<"H", "a", "z", "a", "r", "d">>
H_S == <<"S">>
H_C == <<"C">>

H_E == <<"E">>

\* an Operating Scenario sheet from which process_operating_scenarios extracts records
SheetOf(records) ==
    [columns |-> <<H_OS, H_E, H_HAZARD>>,
     rows |-> [k \in 1..Len(records) |->
                  <<records[k].os, records[k].E,
                    IF records[k].Hazard = None THEN NaN ELSE records[k].Hazard>>]]

\* sequences over S of length 0..n
SeqsUpTo(S, n) == UNION {[1..k -> S] : k \in 0..n}

\* the state in which run() calls match_risk_assessment(processed_df, ra_df)
InitPipe(settings, records, sheets) ==
    /\ fuzzy_settings \in settings
    /\ processed_df \in records
    /\ ra_df \in sheets
    /\ ra_cols = Unresolved
    /\ matched_results = <<>>
    /\ locals = <<>>
    /\ exact_matches = 0
    /\ fuzzy_matches = 0
    /\ no_matches = 0
    /\ final_df = <<>>
    /\ os_df = SheetOf(processed_df)
    /\ readable = {"os", "ra"}
    /\ events = EventsBeforeMatch
    /\ pc = "resolve"
    /\ AsilIdle
    /\ FmIdle
    /\ GuiIdle

Txt_ab == <<"a", "b">>
Txt_Ab == <<"A", "b">>
Txt_a_b == <<"a", " ", "b">>
Txt_a__b == <<"a", " ", " ", "b">>
Txt_x == <<"x">>
Txt_hi == <<"h", "i">>
Txt_ha == <<"h", "a">>

\* matching runs: the texts, the hazards and the matcher settings vary.  With the
\* Ratio algorithm "ab" against "a b" scores 80, "Ab" against "ab" 50 when case
\* counts, "hi" against "ha" 50, and "x" scores 0 against the other texts.
MatchSettings ==
    {[DEFAULT_SETTINGS EXCEPT !.threshold = th] : th \in {0, 50, 86, 100}}
    \cup
    {[DEFAULT_SETTINGS EXCEPT !.enabled = FALSE, !.threshold = th] : th \in {50, 100}}
    \cup
    {[DEFAULT_SETTINGS EXCEPT !.threshold = 50, !.case_sensitive = TRUE],
     [DEFAULT_SETTINGS EXCEPT !.threshold = 50, !.strip_whitespace = FALSE]}

MatchRecords ==
    {<<[os |-> TextCell(os), E |-> IntCell(3), Hazard |-> hz, Original_Index |-> 0]>> :
        os \in {Txt_ab, Txt_Ab, Txt_a__b}, hz \in {None, TextCell(Txt_hi)}}

MatchOsCells == {TextCell(Txt_ab), TextCell(Txt_a_b), TextCell(Txt_x)}

\* the scenario and hazard cells of a row of a sheet with a hazard column
MatchHazardRows ==
    {<<TextCell(Txt_ab), NaN>>, <<TextCell(Txt_ab), TextCell(Txt_hi)>>,
     <<TextCell(Txt_ab), TextCell(Txt_ha)>>, <<TextCell(Txt_a_b), TextCell(Txt_hi)>>,
     <<TextCell(Txt_a_b), TextCell(Txt_ha)>>, <<TextCell(Txt_x), TextCell(Txt_hi)>>}

MatchSheets ==
    {[columns |-> <<H_OS, H_HAZARD, H_S, H_C>>, rows |-> rows] :
        rows \in SeqsUpTo({<<r[1], r[2], IntCell(2), IntCell(2)>> : r \in MatchHazardRows},
                          MaxRaRows)}
    \cup
    {[columns |-> <<H_OS, H_S, H_C>>, rows |-> rows] :
        rows \in SeqsUpTo({<<os, IntCell(2), IntCell(2)>> : os \in MatchOsCells \cup {NaN}},
                          MaxRaRows)}

InitMatch == InitPipe(MatchSettings, MatchRecords, MatchSheets)

SpecMatch == InitMatch /\ [][NextPipe]_vars

\* the algorithms of the selection box, each its sequence of words
ALGORITHMS ==
    {<<"Ratio", "(Default)">>, <<"Partial", "Ratio">>, <<"Token", "Sort", "Ratio">>,
     <<"Token", "Set", "Ratio">>}

Txt_b_a == <<"b", " ", "a">>

\* fuzzy runs: the algorithm varies, both weights are at the top of their range, or the
\* threshold is 0 and the hazard weight 1 percent ("hi" against "hxy" scores 40)
FuzzySettings ==
    {[DEFAULT_SETTINGS EXCEPT !.threshold = 50, !.algorithm = a] : a \in ALGORITHMS}
    \cup
    {[DEFAULT_SETTINGS EXCEPT !.threshold = 50, !.os_weight = 100, !.hazard_weight = 100],
     [DEFAULT_SETTINGS EXCEPT !.threshold = 0, !.hazard_weight = 1]}

FuzzyRecords ==
    {<<[os |-> TextCell(os), E |-> IntCell(3), Hazard |-> hz, Original_Index |-> 0]>> :
        os \in {Txt_ab, Txt_b_a}, hz \in {None, TextCell(Txt_hi)}}

\* the rows of the matching runs, one whose hazard cell holds blanks only, and one with
\* another scenario and a hazard that shares one letter with "hi"
FuzzySheets ==
    {[columns |-> <<H_OS, H_HAZARD, H_S, H_C>>, rows |-> rows] :
        rows \in SeqsUpTo({<<r[1], r[2], IntCell(2), IntCell(2)>> :
                               r \in MatchHazardRows
                                     \cup {<<TextCell(Txt_a_b), TextCell(<<" ", " ">>)>>,
                                           <<TextCell(Txt_x), TextCell(<<"h", "x", "y">>)>>}},
                          MaxRaRows)}

InitFuzzy == InitPipe(FuzzySettings, FuzzyRecords, FuzzySheets)

SpecFuzzy == InitFuzzy /\ [][NextPipe]_vars

(***************************************************************************)
(* Whole runs of ExcelProcessor.run on a workbook: the two sheets and      *)
(* whether pd.read_excel finds them vary.                                  *)
(***************************************************************************)
\* most rows of an Operating Scenario sheet
MaxOsRows == 2

H_OS_LOOSE ==
    <<" ", "O", "P", "E", "R", "A", "T", "I", "N", "G", " ", "S", "c", "e", "n", "a", "r",
      "i", "o">>
H_HAZARD2 == <<"M", "y", " ", "H", "A", "Z", "A", "R", "D">>

Txt_pad_ab == <<" ", "a", "b", " ">>
Txt_blank == <<" ", " ">>

\* rows under the columns Operating Scenario, E, Hazard, My HAZARD
RunOsRows ==
    {<<TextCell(Txt_pad_ab), IntCell(3), TextCell(Txt_hi), NaN>>,
     <<TextCell(Txt_ab), NaN, TextCell(<<" ">>), TextCell(Txt_ha)>>,
     <<TextCell(Txt_x), TextCell(<<"x">>), TextCell(Txt_hi), TextCell(Txt_ha)>>,
     <<NaN, IntCell(3), TextCell(Txt_hi), NaN>>,
     <<TextCell(Txt_blank), IntCell(3), TextCell(Txt_hi), NaN>>,
     <<TextCell(Txt_ab), IntCell(9), NaN, NaN>>}

\* rows under the columns " OPERATING Scenario", Hazard
RunOsRowsNoE ==
    {<<TextCell(Txt_ab), TextCell(Txt_hi)>>, <<NaN, TextCell(Txt_hi)>>,
     <<TextCell(Txt_pad_ab), NaN>>}

RunOsSheets ==
    {[columns |-> <<H_OS, H_E, H_HAZARD, H_HAZARD2>>, rows |-> rows] :
        rows \in SeqsUpTo(RunOsRows, MaxOsRows)}
    \cup
    {[columns |-> <<H_OS_LOOSE, H_HAZARD>>, rows |-> rows] :
        rows \in SeqsUpTo(RunOsRowsNoE, MaxOsRows)}
    \cup
    {[columns |-> <<H_E, H_HAZARD>>, rows |-> rows] :
        rows \in SeqsUpTo({<<IntCell(3), TextCell(Txt_hi)>>}, 1)}

\* rows under the columns Operating Scenario, Hazard, S, C
RunRaRows ==
    {<<TextCell(Txt_ab), TextCell(Txt_hi), IntCell(2), IntCell(2)>>,
     <<TextCell(Txt_ab), TextCell(Txt_hi), FloatCell(35), TextCell(<<"x">>)>>}

RunRaSheets ==
    {[columns |-> <<H_OS, H_HAZARD, H_S, H_C>>, rows |-> rows] :
        rows \in SeqsUpTo(RunRaRows, MaxRaRows)}
    \cup
    {[columns |-> <<H_S, H_C>>, rows |-> <<<<IntCell(2), IntCell(2)>>>>]}

\* the workbooks: every pair of sheets readable, and one pair with a sheet not found
RunWorkbooks ==
    {[os |-> o, ra |-> r, readable |-> {"os", "ra"}] : o \in RunOsSheets, r \in RunRaSheets}
    \cup
    {[os |-> [columns |-> <<H_OS, H_E, H_HAZARD, H_HAZARD2>>,
              rows |-> <<<<TextCell(Txt_ab), IntCell(9), NaN, NaN>>>>],
      ra |-> [columns |-> <<H_S, H_C>>, rows |-> <<<<IntCell(2), IntCell(2)>>>>],
      readable |-> found] : found \in {{"os"}, {"ra"}}}

\* the state in which run() is entered
InitRun ==
    /\ fuzzy_settings = DEFAULT_SETTINGS
    /\ \E w \in RunWorkbooks :
          /\ os_df = w.os
          /\ ra_df = w.ra
          /\ readable = w.readable
    /\ ra_cols = Unresolved
    /\ processed_df = <<>>
    /\ matched_results = <<>>
    /\ locals = <<>>
    /\ exact_matches = 0
    /\ fuzzy_matches = 0
    /\ no_matches = 0
    /\ final_df = <<>>
    /\ events = <<>>
    /\ pc = "start"
    /\ AsilIdle
    /\ FmIdle
    /\ GuiIdle

SpecRun == InitRun /\ [][NextRun]_vars

\* enrichment runs: the severity and controllability cells, the presence of their
\* columns and the stored exposure vary; the sheet has at most one row
EnrichLevelCells ==
    {NaN, IntCell(0 - 1), IntCell(0), IntCell(3), IntCell(4), FloatCell(35),
     FloatCell(0 - 5), TextCell(<<"2">>), TextCell(<<"x">>)}

EnrichSettings == {DEFAULT_SETTINGS, [DEFAULT_SETTINGS EXCEPT !.enabled = FALSE]}

EnrichRecords ==
    {<<[os |-> TextCell(Txt_ab), E |-> IntCell(e), Hazard |-> None, Original_Index |-> 0]>> :
        e \in {0 - 1, 1, 3, 4, 99}}

EnrichSheets ==
    {[columns |-> <<H_OS, H_S, H_C>>, rows |-> rows] :
        rows \in SeqsUpTo({<<TextCell(Txt_ab), sc, cc>> :
                               sc \in EnrichLevelCells, cc \in EnrichLevelCells}
                          \cup {<<TextCell(Txt_x), IntCell(3), IntCell(3)>>}, 1)}
    \cup
    {[columns |-> <<H_OS, H_S>>, rows |-> rows] :
        rows \in SeqsUpTo({<<TextCell(Txt_ab), sc>> : sc \in EnrichLevelCells}, 1)}
    \cup
    {[columns |-> <<H_OS, H_C>>, rows |-> rows] :
        rows \in SeqsUpTo({<<TextCell(Txt_ab), cc>> : cc \in EnrichLevelCells}, 1)}

InitEnrich == InitPipe(EnrichSettings, EnrichRecords, EnrichSheets)

\* calls of get_asil_value on drawn arguments, and the enrichment runs
SpecDetermine == (InitAsil \/ InitEnrich) /\ [][NextAsil \/ NextPipe]_vars

(***************************************************************************)
(* Calls of the FuzzyMatcher methods on arguments drawn from bounded sets  *)
(***************************************************************************)
\* most candidate rows passed to find_best_match
MaxCandidates == 2

Txt_pad_Ab == <<" ", " ", "A", " ", " ", "b", " ">>

MatcherOptions ==
    {[DEFAULT_SETTINGS EXCEPT !.case_sensitive = cs, !.strip_whitespace = sw,
                              !.threshold = t, !.enabled = en] :
        cs \in BOOLEAN, sw \in BOOLEAN, t \in {0, 80}, en \in BOOLEAN}

MatcherTexts ==
    {NaN, None, EmptyMarker, TextCell(Txt_blank), TextCell(Txt_ab), TextCell(Txt_pad_Ab),
     TextCell(Txt_a__b), IntCell(3), FloatCell(35)}

CandidateCells == {NaN, EmptyMarker, TextCell(Txt_blank), TextCell(Txt_ab)}

MatcherTargets == {EmptyMarker, TextCell(Txt_blank), TextCell(Txt_a_b), NaN}

InitMatcher ==
    /\ fuzzy_settings \in MatcherOptions
    /\ \/ /\ fm_pc = "prepare"
          /\ fm_args \in {<<x>> : x \in MatcherTexts}
       \/ /\ fm_pc = "score"
          /\ fm_args \in {<<str1, str2>> : str1 \in MatcherTargets, str2 \in CandidateCells}
       \/ /\ fm_pc = "best"
          /\ fm_args \in {<<target, candidates, secondary, <<70, 30>> >> :
                             target \in MatcherTargets,
                             candidates \in SeqsUpTo({<<c, TextCell(Txt_a_b)>> :
                                                         c \in CandidateCells},
                                                     MaxCandidates),
                             secondary \in BOOLEAN}
    /\ fm_out = <<>>
    /\ ra_df = [columns |-> <<>>, rows |-> <<>>]
    /\ ra_cols = Unresolved
    /\ processed_df = <<>>
    /\ matched_results = <<>>
    /\ locals = <<>>
    /\ exact_matches = 0
    /\ fuzzy_matches = 0
    /\ no_matches = 0
    /\ final_df = <<>>
    /\ os_df = [columns |-> <<>>, rows |-> <<>>]
    /\ readable = {}
    /\ events = <<>>
    /\ pc = "idle"
    /\ AsilIdle
    /\ GuiIdle

\* prepare_string is applied to the argument, then to the string it returned
CallPrepareString ==
    /\ fm_pc = "prepare"
    /\ fm_out' = Append(fm_out, prepare_string(IF fm_out = <<>> THEN fm_args[1]
                                               ELSE TextCell(fm_out[Len(fm_out)])))
    /\ fm_pc' = (IF fm_out = <<>> THEN "prepare" ELSE "done")
    /\ UNCHANGED <<fm_args, asil_vars, pipe_vars, gui_vars>>

CallCalculateScore ==
    /\ fm_pc = "score"
    /\ fm_out' = <<calculate_score(fm_args[1], fm_args[2])>>
    /\ fm_pc' = "done"
    /\ UNCHANGED <<fm_args, asil_vars, pipe_vars, gui_vars>>

CallFindBestMatch ==
    /\ fm_pc = "best"
    /\ fm_out' = <<find_best_match(fm_args[1], fm_args[2], fm_args[3], fm_args[4])>>
    /\ fm_pc' = "done"
    /\ UNCHANGED <<fm_args, asil_vars, pipe_vars, gui_vars>>

NextMatcher == CallPrepareString \/ CallCalculateScore \/ CallFindBestMatch

SpecMatcher == InitMatcher /\ [][NextMatcher]_vars

\* runs on workbooks whose headers are recognized names in several spellings
H_OS_SHORT == <<"O", "S">>
H_EXPOSURE == <<"E", "x", "p", "o", "s", "u", "r", "e">>
H_S_PADDED == <<" ", "s", " ">>
H_SEVERITY == <<"S", "e", "v", "e", "r", "i", "t", "y">>
H_SEVERITY_RATING == <<"s", "e", "v", "e", "r", "i", "t", "y", " ", "r", "a", "t", "i", "n", "g">>
H_CONTROLLABILITY == <<"C", "o", "n", "t", "r", "o", "l", "l", "a", "b", "i", "l", "i", "t", "y">>

ColumnWorkbooks ==
    {[os |-> [columns |-> <<o, e, H_HAZARD>>,
              rows |-> <<<<TextCell(Txt_ab), IntCell(2), TextCell(Txt_hi)>>>>],
      ra |-> [columns |-> <<H_OS, sc, cc, H_S>>,
              rows |-> <<<<TextCell(Txt_ab), IntCell(3), IntCell(2), IntCell(1)>>>>]] :
        o \in {H_OS, H_OS_SHORT}, e \in {H_E, H_EXPOSURE},
        sc \in {H_S, H_S_PADDED, H_SEVERITY, H_SEVERITY_RATING},
        cc \in {H_C, H_CONTROLLABILITY}}

InitColumns ==
    /\ fuzzy_settings = DEFAULT_SETTINGS
    /\ \E w \in ColumnWorkbooks :
          /\ os_df = w.os
          /\ ra_df = w.ra
    /\ readable = {"os", "ra"}
    /\ ra_cols = Unresolved
    /\ processed_df = <<>>
    /\ matched_results = <<>>
    /\ locals = <<>>
    /\ exact_matches = 0
    /\ fuzzy_matches = 0
    /\ no_matches = 0
    /\ final_df = <<>>
    /\ events = <<>>
    /\ pc = "start"
    /\ AsilIdle
    /\ FmIdle
    /\ GuiIdle

SpecColumns == InitColumns /\ [][NextRun]_vars

(***************************************************************************)
(* HARAMainWindow, src/hara_tool/gui.py: the user's clicks and the slots   *)
(* connected to the signals of the ExcelProcessor threads.  A path is a    *)
(* text cell, a result table the record [file, run] of the workbook it was *)
(* computed from and of the thread that computed it, a thread the record   *)
(* [file, status, ended]: status "running", "finished" or "failed", ended  *)
(* the position of its outcome among the outcomes so far (0: none yet).    *)
(***************************************************************************)
\* most ExcelProcessor threads started in one session
MaxRuns == 2
\* most workbooks written in one session
MaxWrites == 2

FILES == {TextCell(<<"A">>), TextCell(<<"B">>)}

\* QFileDialog returns '' when the dialog is cancelled
Cancelled == TextCell(<<>>)

Running == {i \in 1..Len(processors) : processors[i].status = "running"}

Ended == {i \in 1..Len(processors) : processors[i].status # "running"}

\* browse_file, with load_sheets: the path is stored before the workbook is opened, and
\* the Process button is enabled when it opens; no other control is touched
BrowseFile ==
    /\ app = "running"
    /\ \E file_path \in FILES \cup {Cancelled}, opens \in BOOLEAN :
          IF Truthy(file_path)
          THEN /\ user_file' = file_path
               /\ process_btn' = (IF opens THEN TRUE ELSE process_btn)
          ELSE UNCHANGED <<user_file, process_btn>>
    /\ UNCHANGED <<result_df, save_btn, export_btn, processors, written, app,
                   asil_vars, pipe_vars, fm_vars>>

\* self.processor is rebound while the thread it named may still run: the QThread
\* object loses its last reference, and Qt either ends the process ("QThread: Destroyed
\* while thread is still running") or the thread runs on, as the object's lifetime decides
Fates == IF Running = {} THEN {"runs"} ELSE {"runs", "aborted"}

\* process_data, a click on the enabled Process button
ProcessData ==
    /\ app = "running"
    /\ process_btn
    /\ Len(processors) < MaxRuns
    /\ \E sheets_differ \in BOOLEAN, fate \in Fates :
          IF ~Truthy(user_file) \/ ~sheets_differ
          THEN UNCHANGED <<process_btn, save_btn, export_btn, processors, app>>
          ELSE /\ process_btn' = FALSE
               /\ save_btn' = FALSE
               /\ export_btn' = FALSE
               /\ processors' = Append(processors, [file |-> user_file, status |-> "running",
                                                    ended |-> 0])
               /\ app' = (IF fate = "aborted" THEN "aborted" ELSE "running")
    /\ UNCHANGED <<user_file, result_df, written, asil_vars, pipe_vars, fm_vars>>

\* a thread emits finished(final_df) and on_process_complete runs
OnProcessComplete ==
    /\ app = "running"
    /\ \E i \in Running :
          /\ processors' = [processors EXCEPT ![i].status = "finished",
                                              ![i].ended = Cardinality(Ended) + 1]
          /\ result_df' = [file |-> processors[i].file, run |-> i]
    /\ save_btn' = TRUE
    /\ export_btn' = TRUE
    /\ process_btn' = TRUE
    /\ UNCHANGED <<user_file, written, app, asil_vars, pipe_vars, fm_vars>>

\* a thread emits error(message) and on_process_error runs
OnProcessError ==
    /\ app = "running"
    /\ \E i \in Running :
          processors' = [processors EXCEPT ![i].status = "failed",
                                           ![i].ended = Cardinality(Ended) + 1]
    /\ process_btn' = TRUE
    /\ UNCHANGED <<user_file, result_df, save_btn, export_btn, written, app,
                   asil_vars, pipe_vars, fm_vars>>

\* save_results, a click on the enabled Save button: every sheet of the workbook
\* self.user_file names is written back with RESULT added or replaced, unless reading
\* or writing raises
SaveResults ==
    /\ app = "running"
    /\ save_btn
    /\ Len(written) < MaxWrites
    /\ \E io_ok \in BOOLEAN :
          written' = (IF result_df # None /\ io_ok
                      THEN Append(written, [by |-> "save", into |-> user_file,
                                            sheet |-> result_df])
                      ELSE written)
    /\ UNCHANGED <<user_file, result_df, process_btn, save_btn, export_btn, processors, app,
                   asil_vars, pipe_vars, fm_vars>>

\* export_results, a click on the enabled Export button: a new workbook with the one
\* sheet RESULT, unless the dialog is cancelled
ExportResults ==
    /\ app = "running"
    /\ export_btn
    /\ Len(written) < MaxWrites
    /\ \E file_path \in {TextCell(<<"X">>), Cancelled} :
          written' = (IF result_df # None /\ Truthy(file_path)
                      THEN Append(written, [by |-> "export", into |-> file_path,
                                            sheet |-> result_df])
                      ELSE written)
    /\ UNCHANGED <<user_file, result_df, process_btn, save_btn, export_btn, processors, app,
                   asil_vars, pipe_vars, fm_vars>>

NextGui ==
    BrowseFile \/ ProcessData \/ OnProcessComplete \/ OnProcessError \/ SaveResults
        \/ ExportResults

\* the main window after construction
InitGui == GuiIdle /\ PipeIdle /\ AsilIdle /\ FmIdle

SpecGui == InitGui /\ [][NextGui]_vars

(***************************************************************************)
(* Properties of the ASIL determination and of the validated S and C       *)
(***************************************************************************)
\* the determination table as the twelve rows S1,E1 .. S3,E4 of grades for C0..C3
DeterminationRows ==
    << <<"QM", "QM", "QM", "QM">>, <<"QM", "QM", "QM", "QM">>,
       <<"QM", "QM", "QM", "A">>,  <<"QM", "QM", "A", "B">>,
       <<"QM", "QM", "QM", "QM">>, <<"QM", "QM", "QM", "A">>,
       <<"QM", "QM", "A", "B">>,   <<"A", "A", "B", "C">>,
       <<"QM", "QM", "A", "B">>,   <<"QM", "QM", "B", "C">>,
       <<"A", "A", "B", "C">>,     <<"B", "B", "C", "D">> >>

IsInt(x) == x.k = "int"

IntIn(x, lo, hi) == x.k = "int" /\ lo <= x.n /\ x.n <= hi

Called == asil_pc = "done"

CalledWith(e, s, c) ==
    Called /\ arg_e = IntCell(e) /\ arg_s = IntCell(s) /\ arg_c = IntCell(c)

\* C1: for S in 1..3, C in 0..3 and E in 1..4, get_asil_value(E, S, C) is the grade of
\* the twelve-row determination table at row (S, E), column C; determine(4,3,2) is "C"
\* and determine(1,1,0) is "QM".
C1_TableEntry ==
    /\ (Called /\ IntIn(arg_e, 1, 4) /\ IntIn(arg_s, 1, 3) /\ IntIn(arg_c, 0, 3))
          => asil_out = DeterminationRows[(arg_s.n - 1) * 4 + arg_e.n][arg_c.n + 1]
    /\ CalledWith(4, 3, 2) => asil_out = "C"
    /\ CalledWith(1, 1, 0) => asil_out = "QM"

C1_Witness == CalledWith(4, 3, 2) /\ asil_out = "C"

Missing(x) == isna(x) \/ IsEmptyStr(x)

ValidLevel(x) == IntIn(x, 0, 3)

\* C3: when severity or controllability is the empty marker or missing, get_asil_value
\* returns the empty ASIL whatever the exposure and the other parameter; and in every
\* final result row the ASIL is empty unless S and C are both integers of [0, 3].
C3_EmptyWithoutSC ==
    /\ (Called /\ (Missing(arg_s) \/ Missing(arg_c))) => asil_out = ""
    /\ pc = "finished" =>
          \A r \in 1..Len(final_df) :
              final_df[r]["ASIL"] # EmptyMarker
                  => ValidLevel(final_df[r]["S"]) /\ ValidLevel(final_df[r]["C"])

C3_Witness ==
    /\ pc = "finished"
    /\ \E r \in 1..Len(final_df) :
          /\ ValidLevel(final_df[r]["S"])
          /\ final_df[r]["S"].n > 0
          /\ final_df[r]["C"] = EmptyMarker
          /\ final_df[r]["ASIL"] = EmptyMarker

\* min(max(e, 1), 4)
Clamp14(e) == IF e < 1 THEN 1 ELSE IF e > 4 THEN 4 ELSE e

\* C4: for every integer exposure e and valid S and C, get_asil_value(e, S, C) equals
\* get_asil_value(min(max(e, 1), 4), S, C), so determine(0,1,1) = determine(1,1,1) and
\* determine(99,1,1) = determine(4,1,1); for S in 1..3 and C in 0..3 the result is not
\* empty for any integer e.
C4_ExposureClamped ==
    (Called /\ IsInt(arg_e) /\ ValidLevel(arg_s) /\ ValidLevel(arg_c)) =>
        /\ asil_out = get_asil_value(IntCell(Clamp14(arg_e.n)), arg_s, arg_c)
        /\ arg_s.n >= 1 =>
              /\ asil_out # ""
              /\ asil_out = DeterminationRows[(arg_s.n - 1) * 4 + Clamp14(arg_e.n)][arg_c.n + 1]

C4_Witness == CalledWith(99, 1, 1) /\ asil_out = get_asil_value(IntCell(4), arg_s, arg_c)

\* the RA row a result row was matched to
MatchedRaRow(r) == ra_df.rows[locals[r].best_match]

\* C5: severity 0 gives the empty ASIL for every exposure and every controllability of
\* 0..3, never "QM", although a severity cell 0 passes the [0, 3] validation and is
\* stored as S = 0 in the result row.
C5_SeverityZeroEmpty ==
    /\ (Called /\ arg_s = IntCell(0) /\ ValidLevel(arg_c)) => asil_out = ""
    /\ \A r \in 1..Len(matched_results) :
          (locals[r].best_match # 0 /\ ra_s_col # 0
                /\ MatchedRaRow(r)[ra_s_col] = IntCell(0))
              => matched_results[r]["S"] = IntCell(0)
    /\ pc = "finished" =>
          \A r \in 1..Len(final_df) :
              final_df[r]["S"] = IntCell(0) => final_df[r]["ASIL"] = EmptyMarker

C5_Witness ==
    /\ pc = "finished"
    /\ \E r \in 1..Len(final_df) :
          /\ final_df[r]["S"] = IntCell(0)
          /\ ValidLevel(final_df[r]["C"])
          /\ final_df[r]["ASIL"] = EmptyMarker

\* the number in a cell lies outside [0, 3]
OutsideLevels(x) ==
    \/ x.k = "int" /\ (x.n < 0 \/ x.n > 3)
    \/ x.k = "float" /\ (x.n < 0 \/ x.n > 30)

\* the cell holds no number: it is missing, or text that is no integer literal
Unparsable(x) == isna(x) \/ (x.k = "text" /\ ~PyInt(x).ok)

\* C6: in every result row S and C are each an integer of [0, 3] or the empty marker,
\* and a cell that does not parse or whose value lies outside [0, 3] gives the empty
\* marker, never a value brought into the range.
C6_LevelsValidated ==
    \A r \in 1..Len(matched_results) :
        /\ ValidLevel(matched_results[r]["S"]) \/ matched_results[r]["S"] = EmptyMarker
        /\ ValidLevel(matched_results[r]["C"]) \/ matched_results[r]["C"] = EmptyMarker
        /\ (locals[r].best_match # 0 /\ ra_s_col # 0
                /\ (Unparsable(MatchedRaRow(r)[ra_s_col])
                        \/ OutsideLevels(MatchedRaRow(r)[ra_s_col])))
              => matched_results[r]["S"] = EmptyMarker
        /\ (locals[r].best_match # 0 /\ ra_c_col # 0
                /\ (Unparsable(MatchedRaRow(r)[ra_c_col])
                        \/ OutsideLevels(MatchedRaRow(r)[ra_c_col])))
              => matched_results[r]["C"] = EmptyMarker

(***************************************************************************)
(* Properties of the two matching phases                                   *)
(***************************************************************************)
Scenario(k) == processed_df[k]

RaRows == 1..Len(ra_df.rows)

\* RA row j has a scenario cell, so that both phases look at it
IsCandidate(j) == notna(Get(ra_df.rows[j], ra_os_col))

\* the normalized scenario text of RA row j equals that of scenario k
TextEqual(k, j) ==
    /\ IsCandidate(j)
    /\ PrepareText(Scenario(k).os, fuzzy_settings.case_sensitive,
                   fuzzy_settings.strip_whitespace)
         = PrepareText(ra_df.rows[j][ra_os_col], fuzzy_settings.case_sensitive,
                       fuzzy_settings.strip_whitespace)

\* scenario k has a hazard and the RA sheet a hazard column
HazardInvolved(k) == Truthy(Scenario(k).Hazard) /\ ra_hazard_col # 0

\* RA row j has a hazard cell whose normalized text equals that of scenario k's hazard
HazardEqual(k, j) ==
    /\ notna(Get(ra_df.rows[j], ra_hazard_col))
    /\ PrepareText(Scenario(k).Hazard, fuzzy_settings.case_sensitive,
                   fuzzy_settings.strip_whitespace)
         = PrepareText(ra_df.rows[j][ra_hazard_col], fuzzy_settings.case_sensitive,
                       fuzzy_settings.strip_whitespace)

\* RA row j satisfies the exact phase for scenario k
ExactCond(k, j) == TextEqual(k, j) /\ (HazardInvolved(k) => HazardEqual(k, j))

Hundred == TextCell(<<"1", "0", "0", "%">>)

IsExactKind(k) ==
    /\ locals[k].match_type = "exact"
    /\ locals[k].best_score = 10000
    /\ matched_results[k]["Match_Type"]
         \in {TextCell(<<"Exact (OS)">>), TextCell(<<"Exact (OS+Hazard)">>)}
    /\ matched_results[k]["Match_Score"] = Hundred

IsFuzzyKind(k) == locals[k].match_type = "fuzzy"

\* C7: when the normalized text of a scenario equals that of some RA row and no hazard
\* is involved (the scenario has none, or the RA sheet has no hazard column), the result
\* is "Exact (OS)" with score 100 on the first such RA row in sheet order, under every
\* fuzzy setting, fuzzy disabled and threshold 100 included.
C7_ExactScenarioFirst ==
    \A k \in 1..Len(locals) :
        (~HazardInvolved(k) /\ \E j \in RaRows : TextEqual(k, j)) =>
            /\ IsExactKind(k)
            /\ matched_results[k]["Match_Type"] = TextCell(<<"Exact (OS)">>)
            /\ locals[k].best_match \in RaRows
            /\ TextEqual(k, locals[k].best_match)
            /\ \A j \in RaRows : j < locals[k].best_match => ~TextEqual(k, j)

C7_Witness ==
    \E k \in 1..Len(locals) :
        /\ ~HazardInvolved(k)
        /\ Len(ra_df.rows) = 2
        /\ TextEqual(k, 1) /\ TextEqual(k, 2)
        /\ ra_df.rows[1] # ra_df.rows[2]
        /\ locals[k].best_match = 1
        /\ matched_results[k]["Match_Type"] = TextCell(<<"Exact (OS)">>)
        /\ (~fuzzy_settings.enabled \/ fuzzy_settings.threshold = 100)

\* the combined fuzzy score of RA row j for scenario k, in hundredths
CandidateScore(k, j) == FuzzyScore(Scenario(k).os, Scenario(k).Hazard, ra_df.rows[j])

\* C8: exact takes priority over fuzzy.  When some RA row satisfies the exact phase the
\* result is an exact kind with score 100 on the first such row, whatever the fuzzy
\* scores of the other rows; a Fuzzy kind arises only with fuzzy matching enabled and
\* no row satisfying the exact phase.
C8_ExactBeforeFuzzy ==
    \A k \in 1..Len(locals) :
        /\ (\E j \in RaRows : ExactCond(k, j)) =>
              /\ IsExactKind(k)
              /\ locals[k].best_match \in RaRows
              /\ ExactCond(k, locals[k].best_match)
              /\ \A j \in RaRows : j < locals[k].best_match => ~ExactCond(k, j)
        /\ IsFuzzyKind(k) =>
              fuzzy_settings.enabled /\ ~\E j \in RaRows : ExactCond(k, j)
        /\ ~fuzzy_settings.enabled =>
              /\ ~IsFuzzyKind(k)
              /\ matched_results[k]["Match_Type"]
                   \in {TextCell(<<"Exact (OS)">>), TextCell(<<"Exact (OS+Hazard)">>),
                        TextCell(<<"No match">>)}

C8_Witness ==
    \E k \in 1..Len(locals) :
        /\ fuzzy_settings.enabled
        /\ Len(ra_df.rows) = 2
        /\ ~ExactCond(k, 1)
        /\ CandidateScore(k, 1) >= fuzzy_settings.threshold * 100
        /\ CandidateScore(k, 1) > 0
        /\ ExactCond(k, 2)
        /\ IsExactKind(k)
        /\ locals[k].best_match = 2

\* C9: with a hazard on the scenario and a hazard column in the RA sheet, an RA row of
\* equal scenario text whose hazard cell is missing or differs is passed over and the
\* scan goes on to a later row satisfying both equalities; when no row satisfies both,
\* there is no fall-back to a scenario-only exact match: the kind is not exact, and is
\* "No match" with fuzzy matching disabled.
C9_NoScenarioOnlyFallback ==
    \A k \in 1..Len(locals) :
        HazardInvolved(k) =>
            /\ (~\E j \in RaRows : TextEqual(k, j) /\ HazardEqual(k, j)) =>
                  /\ locals[k].match_type # "exact"
                  /\ matched_results[k]["Match_Type"]
                       \notin {TextCell(<<"Exact (OS)">>), TextCell(<<"Exact (OS+Hazard)">>)}
                  /\ ~fuzzy_settings.enabled =>
                        /\ locals[k].best_match = 0
                        /\ matched_results[k]["Match_Type"] = TextCell(<<"No match">>)
            /\ \A j \in RaRows :
                  (/\ TextEqual(k, j) /\ HazardEqual(k, j)
                   /\ \A i \in RaRows : i < j => ~(TextEqual(k, i) /\ HazardEqual(k, i)))
                      => /\ locals[k].best_match = j
                         /\ matched_results[k]["Match_Type"] = TextCell(<<"Exact (OS+Hazard)">>)

C9_Witness ==
    \E k \in 1..Len(locals) :
        /\ HazardInvolved(k)
        /\ ~fuzzy_settings.enabled
        /\ \E j \in RaRows : TextEqual(k, j) /\ ~HazardEqual(k, j)
        /\ ~\E j \in RaRows : TextEqual(k, j) /\ HazardEqual(k, j)
        /\ matched_results[k]["Match_Type"] = TextCell(<<"No match">>)

\* the fuzzy phase ran for scenario k
FuzzyRan(k) == fuzzy_settings.enabled /\ ~\E j \in RaRows : ExactCond(k, j)

\* no candidate before RA row j scores as much as row j
NoEarlierAsHigh(k, j) ==
    \A i \in RaRows : (i < j /\ IsCandidate(i)) => CandidateScore(k, i) < CandidateScore(k, j)

\* RA row j is taken as the running best when the scan reaches it: a match results,
\* on row j unless a later row scores more
QualifiedAt(k, j) ==
    /\ IsFuzzyKind(k)
    /\ locals[k].best_match \in RaRows
    /\ locals[k].best_match >= j
    /\ locals[k].best_score = CandidateScore(k, locals[k].best_match)
    /\ locals[k].best_match # j => locals[k].best_score > CandidateScore(k, j)

\* C10: for every threshold of 0..100, a candidate whose combined score is
\* exactly the threshold qualifies when there is no exact match and no earlier candidate
\* scored as high, and a candidate one point below the threshold never qualifies.
C10_ThresholdQualifies ==
    \A k \in 1..Len(locals) :
        FuzzyRan(k) =>
            \A j \in RaRows :
                IsCandidate(j) =>
                    /\ (CandidateScore(k, j) = fuzzy_settings.threshold * 100
                            /\ NoEarlierAsHigh(k, j))
                          => QualifiedAt(k, j)
                    /\ CandidateScore(k, j) = fuzzy_settings.threshold * 100 - 100
                          => locals[k].best_match # j

\* The boundary as the code keeps it: a candidate whose combined score is exactly the
\* threshold and greater than 0 qualifies when there is no exact match and no earlier
\* candidate scored as high, a candidate one point below the threshold never
\* qualifies, and neither does a candidate of score 0, whatever the threshold.
PositiveThresholdBoundary ==
    \A k \in 1..Len(locals) :
        FuzzyRan(k) =>
            \A j \in RaRows :
                IsCandidate(j) =>
                    /\ (CandidateScore(k, j) = fuzzy_settings.threshold * 100
                            /\ CandidateScore(k, j) > 0
                            /\ NoEarlierAsHigh(k, j))
                          => QualifiedAt(k, j)
                    /\ CandidateScore(k, j) = fuzzy_settings.threshold * 100 - 100
                          => locals[k].best_match # j
                    /\ CandidateScore(k, j) = 0 => locals[k].best_match # j

PositiveThresholdBoundary_Reached ==
    \E k \in 1..Len(locals) :
        /\ FuzzyRan(k)
        /\ Len(ra_df.rows) = 2
        /\ CandidateScore(k, 1) = fuzzy_settings.threshold * 100 - 100
        /\ CandidateScore(k, 2) = fuzzy_settings.threshold * 100
        /\ fuzzy_settings.threshold > 0
        /\ locals[k].best_match = 2
        /\ IsFuzzyKind(k)

\* the RA rows whose combined score meets the threshold for scenario k
Qualifying(k) ==
    {j \in RaRows : IsCandidate(j) /\ CandidateScore(k, j) >= fuzzy_settings.threshold * 100}

\* the result for scenario k is the earliest row of maximal score of the set Q, NoMatch
\* when Q is empty
EarliestMaximum(k, Q) ==
    IF Q = {}
    THEN /\ locals[k].best_match = 0
         /\ locals[k].match_type = "none"
         /\ matched_results[k]["Match_Type"] = TextCell(<<"No match">>)
    ELSE /\ IsFuzzyKind(k)
         /\ locals[k].best_match \in Q
         /\ locals[k].best_score = CandidateScore(k, locals[k].best_match)
         /\ \A j \in Q :
               /\ CandidateScore(k, j) <= locals[k].best_score
               /\ CandidateScore(k, j) = locals[k].best_score => locals[k].best_match <= j

\* C11: when the fuzzy phase runs its result is the RA row of maximum combined score
\* among the rows whose score meets or exceeds the threshold, the earliest in sheet
\* order among rows of equal maximal score, and the kind is NoMatch when no row
\* qualifies.
C11_FuzzyMaximum ==
    \A k \in 1..Len(locals) : FuzzyRan(k) => EarliestMaximum(k, Qualifying(k))

\* The same over the rows scoring more than 0: what the code keeps at every threshold.
FuzzyMaximumPositive ==
    \A k \in 1..Len(locals) :
        FuzzyRan(k) => EarliestMaximum(k, {j \in Qualifying(k) : CandidateScore(k, j) > 0})

FuzzyMaximumPositive_Reached ==
    \E k \in 1..Len(locals) :
        /\ FuzzyRan(k)
        /\ Len(ra_df.rows) = 2
        /\ Qualifying(k) = {1, 2}
        /\ CandidateScore(k, 1) = CandidateScore(k, 2)
        /\ CandidateScore(k, 1) > 0
        /\ locals[k].best_match = 1

\* C12: the score of every match result lies in [0, 100], also with os_weight and
\* hazard_weight each at any value of 0..100 percent.
C12_ScoreInRange ==
    \A k \in 1..Len(locals) :
        /\ 0 <= locals[k].best_score
        /\ locals[k].best_score <= 10000

\* C13: the Match_Type of a fuzzy match is "Fuzzy-<name> (<score>%)" with the score of
\* the winning candidate and a name that tells the configured algorithm from the three
\* other selectable ones.
C13_FuzzyKindNamesAlgorithm ==
    \A k \in 1..Len(locals) :
        IsFuzzyKind(k) =>
            /\ matched_results[k]["Match_Type"] =
                  TextCell(<<"Fuzzy-", algorithm_name(fuzzy_settings.algorithm), " (">>
                           \o Format0f(CandidateScore(k, locals[k].best_match))
                           \o <<"%)">>)
            /\ \A a \in ALGORITHMS \ {fuzzy_settings.algorithm} :
                  algorithm_name(a) # algorithm_name(fuzzy_settings.algorithm)

\* What the code keeps: the name is the first word of the configured algorithm
FuzzyKindFirstWord ==
    \A k \in 1..Len(locals) :
        IsFuzzyKind(k) =>
            matched_results[k]["Match_Type"] =
                TextCell(<<"Fuzzy-", fuzzy_settings.algorithm[1], " (">>
                         \o Format0f(locals[k].best_score) \o <<"%)">>)

\* the enrichment fields of the output table
EnrichmentFields ==
    {"Hazardous Event", "Details of Hazardous event", "people at risk", "Delta v", "S",
     "Severity Rational", "C", "Controllability Rational"}

\* C19: the result row of a scenario with no match has Match_Type "No match", every
\* enrichment field equal to the empty marker, an empty ASIL, and as Hazard the
\* scenario's own hazard when it has one, the empty marker otherwise.
C19_NoMatchRow ==
    \A k \in 1..Len(locals) :
        locals[k].best_match = 0 =>
            /\ matched_results[k]["Match_Type"] = TextCell(<<"No match">>)
            /\ \A f \in EnrichmentFields :
                  f \in DOMAIN matched_results[k] /\ matched_results[k][f] = EmptyMarker
            /\ matched_results[k]["Hazard"] =
                  (IF Scenario(k).Hazard # None THEN Scenario(k).Hazard ELSE EmptyMarker)
            /\ pc = "finished" =>
                  /\ final_df[k]["ASIL"] = EmptyMarker
                  /\ \A f \in EnrichmentFields : final_df[k][f] = EmptyMarker

C19_Witness ==
    \E k \in 1..Len(locals) :
        /\ locals[k].best_match = 0
        /\ Len(ra_df.rows) > 0
        /\ Scenario(k).Hazard # None
        /\ matched_results[k]["Hazard"] = Scenario(k).Hazard
        /\ pc = "finished"
        /\ final_df[k]["ASIL"] = EmptyMarker

\* the RA column an enrichment field is copied from, 0 when it was not resolved
FieldColumn(f) ==
    CASE f = "Hazardous Event" -> ra_he_col
      [] f = "Details of Hazardous event" -> ra_details_col
      [] f = "people at risk" -> ra_people_col
      [] f = "Delta v" -> ra_delta_col
      [] f = "S" -> ra_s_col
      [] f = "Severity Rational" -> ra_s_rational_col
      [] f = "C" -> ra_c_col
      [] f = "Controllability Rational" -> ra_c_rational_col

\* C20: every result row, matched or not, carries every enrichment field, and a field
\* is the empty marker when its RA column was not resolved or the matched row's cell
\* is empty.
C20_FieldsAlwaysPresent ==
    \A k \in 1..Len(locals) :
        \A f \in EnrichmentFields :
            /\ f \in DOMAIN matched_results[k]
            /\ (locals[k].best_match # 0
                    /\ (FieldColumn(f) = 0
                           \/ isna(ra_df.rows[locals[k].best_match][FieldColumn(f)])))
                  => matched_results[k][f] = EmptyMarker

\* What the code keeps: S and C are carried by every row, and are the empty marker when
\* their column was not resolved or the matched row's cell is missing
LevelsAlwaysPresent ==
    \A k \in 1..Len(locals) :
        \A f \in {"S", "C"} :
            /\ f \in DOMAIN matched_results[k]
            /\ (locals[k].best_match # 0
                    /\ (FieldColumn(f) = 0
                           \/ isna(ra_df.rows[locals[k].best_match][FieldColumn(f)])))
                  => matched_results[k][f] = EmptyMarker

(***************************************************************************)
(* Properties of whole runs                                                *)
(***************************************************************************)
HasEvent(e) == \E i \in 1..Len(events) : events[i] = e

\* process_operating_scenarios has returned its records
ExtractionDone == HasEvent(Progress(60))

\* the scenario column of the Operating Scenario sheet, 0 when no column resolves
OsColumn == find_column_case_insensitive(os_df, N_OS)

\* the exposure column of the Operating Scenario sheet, 0 when no column resolves
EColumn == find_column_case_insensitive(os_df, N_E)

\* the trimmed text of a cell
Trimmed(cell) == strip(PyStr(cell))

\* a cell that holds text after trimming
HoldsText(cell) == cell.k # "nan" /\ Trimmed(cell) # <<>>

\* the source rows whose scenario cell holds text
KeptRows == {i \in 1..Len(os_df.rows) : HoldsText(os_df.rows[i][OsColumn])}

\* the k-th of the kept source rows
KeptRow(k) == CHOOSE i \in KeptRows : Cardinality({h \in KeptRows : h <= i}) = k

\* the hazard-candidate columns, in column order
HazardCandidates ==
    {c \in 1..Len(os_df.columns) :
        c # OsColumn /\ Contains(lower(os_df.columns[c]), <<"h", "a", "z", "a", "r", "d">>)}

\* C14: every extracted record yields exactly one result row, in extraction order,
\* whatever its match outcome; the rows dropped at extraction do not appear in the
\* result; nothing keeps several result rows from referencing one RA row.
C14_OneResultPerRecord ==
    /\ Len(matched_results) <= Len(processed_df)
    /\ Len(locals) = Len(matched_results)
    /\ \A k \in 1..Len(matched_results) :
          /\ matched_results[k]["Operating Scenario"] = processed_df[k].os
          /\ matched_results[k]["E"] = processed_df[k].E
    /\ pc \in {"asil", "finished"} => Len(matched_results) = Len(processed_df)
    /\ pc = "finished" =>
          /\ Len(final_df) = Cardinality(KeptRows)
          /\ \A k \in 1..Len(final_df) :
                /\ final_df[k]["Operating Scenario"]
                      = TextCell(Trimmed(os_df.rows[KeptRow(k)][OsColumn]))
                /\ "ASIL" \in DOMAIN final_df[k]
                /\ "Match_Type" \in DOMAIN final_df[k]

C14_Witness ==
    /\ pc = "finished"
    /\ Len(os_df.rows) = 2
    /\ Len(final_df) = 2
    /\ Len(ra_df.rows) = 2
    /\ locals[1].best_match = 1
    /\ locals[2].best_match = 1
    /\ locals[1].match_type # locals[2].match_type

\* C15: extraction emits, in source row order, exactly the rows whose scenario cell is
\* neither missing nor empty after trimming, with the trimmed cell text as scenario
\* text; the hazard is the trimmed text of the first hazard-candidate column, in column
\* order, whose cell holds text, and None when no such column holds text.
C15_Extraction ==
    ExtractionDone =>
        /\ Len(processed_df) = Cardinality(KeptRows)
        /\ \A k \in 1..Len(processed_df) :
              LET i == processed_df[k].Original_Index + 1
                  row == os_df.rows[i]
                  holding == {c \in HazardCandidates : HoldsText(row[c])}
              IN  /\ i \in KeptRows
                  /\ k > 1 => processed_df[k - 1].Original_Index + 1 < i
                  /\ processed_df[k].os = TextCell(Trimmed(row[OsColumn]))
                  /\ holding = {} => processed_df[k].Hazard = None
                  /\ \A c \in holding :
                        (\A b \in holding : c <= b)
                            => processed_df[k].Hazard = TextCell(Trimmed(row[c]))

C15_Witness ==
    /\ ExtractionDone
    /\ Len(os_df.rows) = 2
    /\ Len(processed_df) = 1
    /\ processed_df[1].Original_Index = 1
    /\ Cardinality(HazardCandidates) = 2
    /\ \E c \in HazardCandidates :
          /\ \E b \in HazardCandidates : b < c /\ ~HoldsText(os_df.rows[2][b])
          /\ processed_df[1].Hazard = TextCell(Trimmed(os_df.rows[2][c]))

\* the exposure cell of the source row of record k is absent, empty or no number
NoExposure(k) ==
    \/ EColumn = 0
    \/ os_df.rows[processed_df[k].Original_Index + 1][EColumn].k \in {"nan", "text"}
          /\ ~PyInt(os_df.rows[processed_df[k].Original_Index + 1][EColumn]).ok

\* a failed run failed for a reason other than a numeric cell: a sheet was not found,
\* the scenario column is missing, or no record was extracted
FailedForOtherReason ==
    pc = "failed" => (readable # {"os", "ra"} \/ OsColumn = 0 \/ processed_df = <<>>)

\* C16: a malformed numeric cell never aborts the run nor affects other rows: an
\* exposure cell that is absent, empty or non-numeric gives exposure 4 and an integer
\* one is stored as it is, out of range or not; a severity or controllability cell that
\* does not parse or is out of range gives the empty marker for that field; and every
\* record still has its result row when the run finishes.
C16_MalformedCellsTolerated ==
    /\ ExtractionDone =>
          \A k \in 1..Len(processed_df) :
              /\ NoExposure(k) => processed_df[k].E = IntCell(4)
              /\ (EColumn # 0
                    /\ os_df.rows[processed_df[k].Original_Index + 1][EColumn].k = "int")
                    => processed_df[k].E
                          = os_df.rows[processed_df[k].Original_Index + 1][EColumn]
    /\ \A r \in 1..Len(matched_results) :
          /\ (locals[r].best_match # 0 /\ ra_s_col # 0
                  /\ (Unparsable(MatchedRaRow(r)[ra_s_col])
                          \/ OutsideLevels(MatchedRaRow(r)[ra_s_col])))
                => matched_results[r]["S"] = EmptyMarker
          /\ (locals[r].best_match # 0 /\ ra_c_col # 0
                  /\ (Unparsable(MatchedRaRow(r)[ra_c_col])
                          \/ OutsideLevels(MatchedRaRow(r)[ra_c_col])))
                => matched_results[r]["C"] = EmptyMarker
    /\ FailedForOtherReason
    /\ pc = "finished" => Len(final_df) = Cardinality(KeptRows)

\* What the code keeps of it: the exposure defaults, the empty marker for a cell that
\* does not parse or holds an integer out of range, and no run aborted by a cell
CellsToleratedButFractions ==
    /\ ExtractionDone =>
          \A k \in 1..Len(processed_df) :
              NoExposure(k) => processed_df[k].E = IntCell(4)
    /\ \A r \in 1..Len(matched_results) :
          /\ (locals[r].best_match # 0 /\ ra_s_col # 0
                  /\ (Unparsable(MatchedRaRow(r)[ra_s_col])
                          \/ (MatchedRaRow(r)[ra_s_col].k = "int"
                                 /\ OutsideLevels(MatchedRaRow(r)[ra_s_col]))))
                => matched_results[r]["S"] = EmptyMarker
          /\ (locals[r].best_match # 0 /\ ra_c_col # 0
                  /\ (Unparsable(MatchedRaRow(r)[ra_c_col])
                          \/ (MatchedRaRow(r)[ra_c_col].k = "int"
                                 /\ OutsideLevels(MatchedRaRow(r)[ra_c_col]))))
                => matched_results[r]["C"] = EmptyMarker
    /\ FailedForOtherReason
    /\ pc = "finished" => Len(final_df) = Cardinality(KeptRows)

\* the log lines of matching and of the ASIL determination
MatchingLogs ==
    {Log("Matching scenarios"), Log("Matching complete"), Log("Determining ASIL values..."),
     Log("ASIL determination")}

\* C17: when no column of the Operating Scenario sheet resolves to "operating
\* scenario", the run ends with the configuration error before any matching: no row is
\* matched, no matching or ASIL log line is emitted, the error is reported and no
\* result is emitted.
C17_MissingScenarioColumnAborts ==
    OsColumn = 0 =>
        /\ \A i \in 1..Len(events) :
              events[i] \notin MatchingLogs /\ events[i].t # "finished"
                  /\ events[i] # Progress(60)
        /\ matched_results = <<>> /\ locals = <<>> /\ final_df = <<>>
        /\ ra_cols = Unresolved
        /\ pc \in {"start", "load_ra", "process", "failed"}
        /\ HasEvent(Progress(40)) =>
              /\ pc = "failed"
              /\ events[Len(events)] = ErrorEvent("Operating Scenario column not found")
              /\ events[Len(events) - 1] = Progress(40)

C17_Witness ==
    /\ OsColumn = 0
    /\ Len(os_df.rows) = 1
    /\ pc = "failed"
    /\ events[Len(events)] = ErrorEvent("Operating Scenario column not found")

MILESTONES == <<20, 30, 40, 60, 80, 100>>

IsProgress(e) == e.t = "progress"

IsTerminal(e) == e.t \in {"finished", "error"}

\* the milestone last emitted, 0 before the first
LastMilestone ==
    IF SelectSeq(events, IsProgress) = <<>> THEN 0
    ELSE SelectSeq(events, IsProgress)[Len(SelectSeq(events, IsProgress))].n

\* C18: the progress events of a run are a prefix of 20, 30, 40, 60, 80, 100 in that
\* order; the run ends with exactly one terminal outcome, which is its last event:
\* finished with the full result directly after milestone 100, or error with the
\* message of the first exception, emitted where it was raised; a failed run emits no
\* result.
C18_EventTrace ==
    /\ Len(SelectSeq(events, IsProgress)) <= Len(MILESTONES)
    /\ \A i \in 1..Len(SelectSeq(events, IsProgress)) :
          SelectSeq(events, IsProgress)[i].n = MILESTONES[i]
    /\ Len(SelectSeq(events, IsTerminal)) <= 1
    /\ \A i \in 1..Len(events) : IsTerminal(events[i]) => i = Len(events)
    /\ pc \in {"finished", "failed"} <=> Len(SelectSeq(events, IsTerminal)) = 1
    /\ pc = "finished" =>
          /\ events[Len(events)] = FinishedEvent(final_df)
          /\ events[Len(events) - 1] = Progress(100)
          /\ Len(final_df) = Len(processed_df)
          /\ final_df = determine_asil(matched_results)
    /\ pc = "failed" =>
          /\ events[Len(events)].t = "error"
          /\ final_df = <<>>
          /\ events[Len(events)].m = "Worksheet not found" =>
                \/ LastMilestone = 20 /\ "os" \notin readable
                \/ LastMilestone = 30 /\ "os" \in readable /\ "ra" \notin readable
          /\ events[Len(events)].m = "Operating Scenario column not found" =>
                LastMilestone = 40 /\ OsColumn = 0
          /\ events[Len(events)].m = "Cannot set a DataFrame without columns" =>
                LastMilestone = 80 /\ matched_results = <<>>
    /\ (readable = {"os", "ra"} /\ OsColumn # 0 /\ processed_df # <<>>) => pc # "failed"

C18_Witness ==
    /\ pc = "finished"
    /\ Len(final_df) = 2
    /\ Len(SelectSeq(events, IsProgress)) = 6
    /\ events[Len(events)] = FinishedEvent(final_df)

(***************************************************************************)
(* Properties of the fuzzy score                                           *)
(***************************************************************************)
\* the similarity of the scenario texts of scenario k and RA row j, 0..100
OsScore(k, j) ==
    calculate_score(Scenario(k).os, TextCell(strip(PyStr(ra_df.rows[j][ra_os_col]))))

\* the similarity of the hazard texts of scenario k and RA row j, 0..100
HazardScore(k, j) ==
    calculate_score(Scenario(k).Hazard, TextCell(PyStr(ra_df.rows[j][ra_hazard_col])))

\* the hazard field of RA row j is not empty: the column exists and the cell holds text
\* other than blanks
HazardFieldFilled(j) ==
    /\ ra_hazard_col # 0
    /\ notna(ra_df.rows[j][ra_hazard_col])
    /\ strip(PyStr(ra_df.rows[j][ra_hazard_col])) # <<>>

\* C25: the score of the RA row of a Fuzzy result is os_score * os_weight + hazard_score
\* * hazard_weight when the scenario has a hazard and the row's hazard field is not
\* empty, and os_score alone otherwise: a row without hazard text is not penalised
C25_WeightedOnlyWithHazard ==
    \A k \in 1..Len(locals) :
        locals[k].match_type = "fuzzy" =>
            locals[k].best_score =
                (IF Scenario(k).Hazard # None /\ HazardFieldFilled(locals[k].best_match)
                 THEN OsScore(k, locals[k].best_match) * fuzzy_settings.os_weight
                      + HazardScore(k, locals[k].best_match) * fuzzy_settings.hazard_weight
                 ELSE OsScore(k, locals[k].best_match) * 100)

\* what holds of C25: the weights apply exactly when the scenario has a hazard, the
\* hazard column is resolved and the row's hazard cell is not missing, blank or not
WeightedWhenCellPresent ==
    \A k \in 1..Len(locals) :
        locals[k].match_type = "fuzzy" =>
            locals[k].best_score =
                (IF /\ Scenario(k).Hazard # None
                    /\ ra_hazard_col # 0
                    /\ notna(ra_df.rows[locals[k].best_match][ra_hazard_col])
                 THEN OsScore(k, locals[k].best_match) * fuzzy_settings.os_weight
                      + HazardScore(k, locals[k].best_match) * fuzzy_settings.hazard_weight
                 ELSE OsScore(k, locals[k].best_match) * 100)

WeightedWhenCellPresent_Reached ==
    ~\E k \in 1..Len(locals) :
        /\ locals[k].match_type = "fuzzy"
        /\ Scenario(k).Hazard # None
        /\ isna(ra_df.rows[locals[k].best_match][ra_hazard_col])
        /\ locals[k].best_score = 8000

(***************************************************************************)
(* Properties of the match metadata and of the reported counts             *)
(***************************************************************************)
\* the kind a result row shows in its Match_Type
RowKind(r) ==
    LET shown == matched_results[r]["Match_Type"].t
    IN  IF shown \in {<<"Exact (OS)">>, <<"Exact (OS+Hazard)">>} THEN "exact"
        ELSE IF shown # <<>> /\ shown[1] = "Fuzzy-" THEN "fuzzy"
        ELSE IF shown = <<"No match">> THEN "unmatched"
        ELSE "other"

RowsOfKind(kind) == {r \in 1..Len(matched_results) : RowKind(r) = kind}

MatchingDone == pc \in {"asil", "finished", "failed"} /\ HasEvent(Log("Matching complete"))

\* C28: when match_risk_assessment has processed all scenarios, exact + fuzzy +
\* unmatched is the number of scenario records, and each counter is the number of
\* result rows of its kind, so every scenario is counted once, under its own kind
C28_CountsPartition ==
    MatchingDone =>
        /\ exact_matches + fuzzy_matches + no_matches = Len(processed_df)
        /\ Len(matched_results) = Len(processed_df)
        /\ exact_matches = Cardinality(RowsOfKind("exact"))
        /\ fuzzy_matches = Cardinality(RowsOfKind("fuzzy"))
        /\ no_matches = Cardinality(RowsOfKind("unmatched"))

\* two scenarios have been processed, one matched by similarity and one not at all
C28_Witness ==
    /\ MatchingDone
    /\ Len(processed_df) = 2
    /\ exact_matches = 0
    /\ fuzzy_matches = 1
    /\ no_matches = 1
    /\ RowKind(1) # RowKind(2)

\* the score a result row shows in Match_Score, without the percent sign
ShownScore(r) ==
    SubSeq(matched_results[r]["Match_Score"].t, 1,
           Len(matched_results[r]["Match_Score"].t) - 1)

\* the score a Fuzzy result row shows between the parentheses of its Match_Type
ShownInKind(r) ==
    SubSeq(matched_results[r]["Match_Type"].t, 4,
           Len(matched_results[r]["Match_Type"].t) - 1)

\* the exact and the Fuzzy kind of C29, on the row and on the locals it was built from
KindsConsistent(r) ==
    /\ RowKind(r) \in {"exact", "fuzzy", "unmatched"}
    /\ RowKind(r) = "exact" =>
          locals[r].best_score = 10000 /\ matched_results[r]["Match_Score"] = Hundred
    /\ RowKind(r) = "fuzzy" =>
          /\ locals[r].best_match # 0
          /\ locals[r].best_score >= fuzzy_settings.threshold * 100
          /\ ShownInKind(r) = ShownScore(r)
          /\ ShownScore(r) = Format0f(locals[r].best_score)

\* C29 as claimed: in every result row the matched RA row is absent if and only if
\* Match_Type is "No match" if and only if the score of the row is 0; an exact kind has
\* score 100; a Fuzzy kind has a matched row, a score of at least the threshold, and
\* the same score in Match_Type
C29_Original ==
    \A r \in 1..Len(matched_results) :
        /\ (locals[r].best_match = 0) <=> (RowKind(r) = "unmatched")
        /\ (RowKind(r) = "unmatched") <=> (ShownScore(r) = <<"0">>)
        /\ KindsConsistent(r)

\* C29: in every result row the matched RA row is absent if and only if Match_Type is
\* "No match" if and only if the score found is 0, and then Match_Score is "0%";
\* Match_Score is the score rounded to an integer, so a matched row shows "0%" too when
\* its score is below one half.  An exact kind has score 100; a Fuzzy kind has a matched
\* row, a score of at least the threshold, and the same rounded score in Match_Type
C29_MetadataConsistent ==
    \A r \in 1..Len(matched_results) :
        /\ (locals[r].best_match = 0) <=> (RowKind(r) = "unmatched")
        /\ (RowKind(r) = "unmatched") <=> (locals[r].best_score = 0)
        /\ (RowKind(r) = "unmatched") => (ShownScore(r) = <<"0">>)
        /\ KindsConsistent(r)

\* a row matched by similarity with a score below one half shows 0%
C29_Witness ==
    \E r \in 1..Len(matched_results) :
        /\ RowKind(r) = "fuzzy"
        /\ locals[r].best_match # 0
        /\ locals[r].best_score > 0
        /\ locals[r].best_score < 50
        /\ ShownScore(r) = <<"0">>
        /\ ShownInKind(r) = <<"0">>

(***************************************************************************)
(* Properties of the table returned by determine_asil                      *)
(***************************************************************************)
\* row r of the final table is row r of the matched table with the field ASIL added
OnlyAsilAdded(r) ==
    /\ "ASIL" \notin DOMAIN matched_results[r]
    /\ DOMAIN final_df[r] = DOMAIN matched_results[r] \cup {"ASIL"}
    /\ \A f \in DOMAIN matched_results[r] : final_df[r][f] = matched_results[r][f]
    /\ final_df[r]["E"] = Scenario(r).E

\* C26: determine_asil keeps the number of rows, their order and every field of every
\* row (the stored exposure as extracted, not clamped; S and C as validated) and adds
\* the field ASIL; after it no step changes a row
C26_OnlyAsilAdded ==
    /\ [](pc = "finished" =>
              /\ Len(final_df) = Len(matched_results)
              /\ \A r \in 1..Len(final_df) : OnlyAsilAdded(r))
    /\ [][pc = "finished" => (final_df' = final_df /\ matched_results' = matched_results)]_vars

\* a row whose stored exposure 99 lies outside 1..4 has been graded, by the clamped
\* exposure 4, and still holds 99
C26_Witness ==
    /\ pc = "finished"
    /\ Len(final_df) = 1
    /\ matched_results[1]["E"] = IntCell(99)
    /\ final_df[1]["E"] = IntCell(99)
    /\ final_df[1]["S"] = IntCell(3)
    /\ final_df[1]["C"] = IntCell(3)
    /\ final_df[1]["ASIL"] = TextCell(<<"D">>)

(***************************************************************************)
(* Properties of the main window                                           *)
(***************************************************************************)
\* C21: a step that starts an ExcelProcessor thread is taken only when no thread
\* started earlier is still running (each has had its finished or error outcome)
C21_OneRunAtATime ==
    [][Len(processors') > Len(processors) => Running = {}]_vars

\* the finished thread whose outcome came last
LatestFinished ==
    {i \in Ended : /\ processors[i].status = "finished"
                   /\ \A j \in Ended : processors[j].status = "finished"
                                          => processors[j].ended <= processors[i].ended}

\* C22: a step of save_results that writes a workbook writes the workbook the held
\* result table was computed from, and that table is the one of the successful run
\* that completed last
C22_SavedIntoSource ==
    [][(Len(written') > Len(written) /\ written'[Len(written')].by = "save")
          => /\ written'[Len(written')].into = written'[Len(written')].sheet.file
             /\ written'[Len(written')].sheet.run \in LatestFinished]_vars

\* the second half of C22 alone: what save_results and export_results write is the
\* table of the successful run that completed last
WrittenIsLatestResult ==
    [][Len(written') > Len(written)
          => written'[Len(written')].sheet.run \in LatestFinished]_vars

(***************************************************************************)
(* Order properties of the determination table                             *)
(***************************************************************************)
\* QM < A < B < C < D
GradeRank(grade) ==
    CASE grade = "QM" -> 0
      [] grade = "A" -> 1
      [] grade = "B" -> 2
      [] grade = "C" -> 3
      [] grade = "D" -> 4
      [] OTHER -> 0 - 1

InTableRange ==
    /\ Called
    /\ IntIn(arg_s, 1, 3)
    /\ IntIn(arg_e, 1, 4)
    /\ IntIn(arg_c, 0, 3)

\* C30: for S in 1..3, E in 1..4 and C in 0..3 the result is a grade, raising one of
\* severity, exposure and controllability by one with the other two fixed never lowers
\* the grade, and D is the result only for S3, E4, C3
C30_TableMonotone ==
    InTableRange =>
        /\ GradeRank(asil_out) >= 0
        /\ arg_s.n < 3 =>
              GradeRank(get_asil_value(arg_e, IntCell(arg_s.n + 1), arg_c))
                  >= GradeRank(asil_out)
        /\ arg_e.n < 4 =>
              GradeRank(get_asil_value(IntCell(arg_e.n + 1), arg_s, arg_c))
                  >= GradeRank(asil_out)
        /\ arg_c.n < 3 =>
              GradeRank(get_asil_value(arg_e, arg_s, IntCell(arg_c.n + 1)))
                  >= GradeRank(asil_out)
        /\ asil_out = "D" => (arg_s.n = 3 /\ arg_e.n = 4 /\ arg_c.n = 3)

\* S2, E4, C1 has been graded A: one severity or one controllability higher gives B,
\* one exposure lower gives QM
C30_Witness ==
    /\ CalledWith(4, 2, 1)
    /\ asil_out = "A"
    /\ get_asil_value(arg_e, IntCell(3), arg_c) = "B"
    /\ get_asil_value(arg_e, arg_s, IntCell(2)) = "B"
    /\ get_asil_value(IntCell(3), arg_s, arg_c) = "QM"

(***************************************************************************)
(* Properties of the column resolution                                     *)
(***************************************************************************)
\* the headers of a sheet that, trimmed and lowercased, equal the lowercased name
HeadersNamed(df, name) ==
    {j \in 1..Len(df.columns) : lower(strip(df.columns[j])) = lower(name)}

\* the first of them, 0 when there is none
FirstNamed(df, name) ==
    IF HeadersNamed(df, name) = {} THEN 0 ELSE Least(HeadersNamed(df, name))

\* the column the pipeline resolved for a logical column of COLUMN_MAPPINGS: exposure
\* in the Operating Scenario sheet, the others in the Risk Assessment sheet
PipelineColumn(logical) ==
    CASE logical = "operating_scenario" -> ra_os_col
      [] logical = "hazard" -> ra_hazard_col
      [] logical = "hazardous_event" -> ra_he_col
      [] logical = "details" -> ra_details_col
      [] logical = "people_at_risk" -> ra_people_col
      [] logical = "delta_v" -> ra_delta_col
      [] logical = "severity" -> ra_s_col
      [] logical = "exposure" -> EColumn
      [] logical = "controllability" -> ra_c_col
      [] logical = "severity_rationale" -> ra_s_rational_col
      [] OTHER -> ra_c_rational_col

SheetOfLogical(logical) == IF logical = "exposure" THEN os_df ELSE ra_df

ColumnsResolved == pc \in {"match", "asil", "finished"}

\* C23: a resolved column is the first header that, trimmed and lowercased, equals the
\* lowercased name (none when there is no such header), and every recognized name of a
\* logical column that heads a column of the sheet resolves that logical column
C23_RecognizedNamesResolve ==
    ColumnsResolved =>
        /\ ra_s_col = FirstNamed(ra_df, N_S)
        /\ ra_c_col = FirstNamed(ra_df, N_C)
        /\ ra_os_col = FirstNamed(ra_df, N_OS)
        /\ EColumn = FirstNamed(os_df, N_E)
        /\ \A logical \in DOMAIN COLUMN_MAPPINGS :
              \A name \in COLUMN_MAPPINGS[logical] :
                  HeadersNamed(SheetOfLogical(logical), name) # {}
                      => PipelineColumn(logical) # 0

\* the first half of C23 alone: each resolved column is the first header equal to the one
\* name the pipeline looks for, none when no header equals it
FirstHeaderResolves ==
    ColumnsResolved =>
        /\ ra_s_col = FirstNamed(ra_df, N_S)
        /\ ra_c_col = FirstNamed(ra_df, N_C)
        /\ ra_os_col = FirstNamed(ra_df, N_OS)
        /\ ra_hazard_col = FirstNamed(ra_df, N_HAZARD)
        /\ EColumn = FirstNamed(os_df, N_E)

\* a sheet with two columns named s in different spellings has resolved the first, and
\* one with none has resolved none
FirstHeaderResolves_Reached ==
    ~(ColumnsResolved /\ Cardinality(HeadersNamed(ra_df, N_S)) = 2 /\ ra_s_col = 2)

(***************************************************************************)
(* Properties of the FuzzyMatcher methods                                  *)
(***************************************************************************)
PreparedTwice == Len(fm_args) = 1 /\ Len(fm_out) = 2

ScoreReturned == Len(fm_args) = 2 /\ Len(fm_out) = 1

BestMatchReturned == Len(fm_args) = 4 /\ Len(fm_out) = 1

\* C24: for every input x, missing values included, and every combination of the
\* case_sensitive and strip_whitespace options,
\* prepare_string(prepare_string(x)) = prepare_string(x)
C24_NormalizerIdempotent ==
    PreparedTwice => fm_out[2] = fm_out[1]

\* a text that the first application changed (case folded, blanks collapsed and trimmed)
\* has been normalized twice
C24_Witness ==
    /\ PreparedTwice
    /\ fm_args[1] = TextCell(Txt_pad_Ab)
    /\ fm_out[1] # <<>>
    /\ fm_out[1] # Txt_pad_Ab
    /\ fm_out[2] = fm_out[1]

NormalizesToEmpty(x) == prepare_string(x) = <<>>

\* C27: when the target or the candidate text normalizes to the empty string,
\* calculate_score returns 0 and find_best_match does not return that candidate, neither
\* as Exact nor as Fuzzy; empty against empty is no match
C27_NoMatchOnAbsentData ==
    /\ ScoreReturned =>
          (NormalizesToEmpty(fm_args[1]) \/ NormalizesToEmpty(fm_args[2]) => fm_out[1] = 0)
    /\ BestMatchReturned =>
          (fm_out[1].best_match # 0 =>
              /\ ~NormalizesToEmpty(fm_args[1])
              /\ ~NormalizesToEmpty(fm_args[2][fm_out[1].best_match][1]))

\* what holds of C27: calculate_score is 0 when either string normalizes to the empty
\* string, and without a secondary column find_best_match returns no Fuzzy result for
\* such a target or candidate
EmptyNeverScores ==
    /\ ScoreReturned =>
          (NormalizesToEmpty(fm_args[1]) \/ NormalizesToEmpty(fm_args[2]) => fm_out[1] = 0)
    /\ BestMatchReturned /\ ~fm_args[3] =>
          ((fm_out[1].best_match # 0 /\ fm_out[1].match_type # <<"Exact">>) =>
              /\ ~NormalizesToEmpty(fm_args[1])
              /\ ~NormalizesToEmpty(fm_args[2][fm_out[1].best_match][1]))

EmptyNeverScores_Reached ==
    ~(/\ BestMatchReturned
      /\ ~fm_args[3]
      /\ fm_out[1].best_match # 0
      /\ fm_out[1].match_type # <<"Exact">>)

====
